---- MODULE Spec2Model ----
(***************************************************************************)
(* Verification model of ICEicle: the CorriganLM Gauss-Newton /            *)
(* Levenberg-Marquardt outer loop, its subproblem regulariser, the         *)
(* boundary-condition name lookup and boundary-trace dispatch, the MDG     *)
(* trace selection and geometry constraints, mesh face construction, the   *)
(* FESpace's traces and reference-evaluation cache, and the dof maps.      *)
(*                                                                         *)
(* Reals are modelled on integer grids: a residual norm is a tagged pair   *)
(* <<"fin", n>>, <<"inf", 0>> or <<"nan", 0>> so that IEEE comparisons     *)
(* with non-finite values behave as in the build; u, the geometry          *)
(* unknowns x_g and step lengths are integers in a common unit.            *)
(***************************************************************************)
EXTENDS Integers, Sequences, FiniteSets, TLC

\* ------------------------------------------------------------------ bounds
MaxK == 2          \* largest outer iteration cap kmax explored
MaxRes == 1        \* largest finite residual norm explored
LsKmax == 1        \* most trial evaluations one line search makes
MaxNorm == 1       \* largest column norm of the Jacobian explored
MaxFaces == 2      \* most boundary faces of a mesh
MaxTraces == 3     \* most traces (interior, then boundary) of a mesh
MaxIcNorm == 2     \* largest interface conservation norm and threshold explored
MaxCycle == 1      \* largest cycle number explored
MaxBdyFaces == 2   \* most boundary faces of a mesh whose geometry is constrained
MaxGcNodes == 3    \* most mesh nodes of a mesh whose geometry is constrained
MaxNelem == 2      \* most quads per direction of a generated mesh
MaxRcElems == 3    \* most elements of a mesh an FESpace is constructed on
MaxSelTraces == 2  \* most traces handed to a geo_dof_map or nodeset_dof_map
MaxDgElems == 2    \* most elements of a dg_dof_map
MaxNbasis == 2     \* most basis functions of an element
MaxStNx == 2       \* most elements across a spacetime slab
StDx == 4          \* node spacing of the small slabs, in units of 5e-9
MaxRanks == 3      \* most MPI ranks
MaxNdim == 3       \* most dimensions of an index product
MaxSize1d == 3     \* most indices in one dimension
MaxPnNodes == 2    \* most nodes of a perturbed mesh

\* the largest value a solver parameter of the explicit solvers takes
MaxExVal == 2

\* the components a Krylov step may have
StepVals == {0, 1}

\* the step lengths a line search may try or return: alpha_min = 0 and
\* alpha_initial = alpha_max = 1 are the front end's defaults
AlphaVals == {0, 1}

\* ------------------------------------------------------------------ state
VARIABLES
    \* --- CorriganLM::solve ---
    pc,            \* position inside solve(): start, ksp, update, linesearch, assemble, conv, returned
    kmax,          \* conv_criteria.kmax
    tau_abs,       \* conv_criteria.tau_abs
    tau_rel,       \* conv_criteria.tau_rel
    use_ls,        \* ls_type is not no_linesearch
    k,             \* the loop counter / return value
    u,             \* the solution coefficients (one dof)
    coord,         \* coord_data: the geometry unknowns x_g (one dof)
    mesh,          \* fespace.meshptr->nodes at the selected node
    du,            \* du_data, pde part
    dx,            \* du_data, geometry part
    alpha,         \* step length applied in the current iteration
    ls_iter,       \* trial evaluations made by the running line search
    res_norm,      \* VecNorm(res_data): r0 at start, rk inside the loop
    res_at,        \* the point (u, x_g) at which res_data was last assembled
    r0,            \* conv_criteria.r0
    ksp_reason,    \* outcome of the last KSPSolve
    anomaly_log,   \* util::AnomalyLog: the anomalies logged so far
    \* --- history of the current outer iteration ---
    u_pre,         \* u when the running iteration began (u between iterations)
    x_pre,         \* coord when the running iteration began (coord between iterations)
    niter,         \* passes of the loop body entered since solve() began
    \* --- the other components, one record each ---
    reg,           \* the subproblem regulariser: its inputs and both computed forms
    bc,            \* boundary faces: names read, bctypes, boundary-trace assembly
    sel,           \* lua_select_mdg_geometry: configuration, traces, selection
    gc,            \* lua_select_mdg_geometry: the geometry constraints of the returned map
    fm,            \* mesh faces and the traces an FESpace builds on them
    rc,            \* FESpace: the reference-evaluation cache and the elements' references
    dm,            \* dg_dof_map, an fespan over it and elspan scatter
    gm,            \* geo_dof_map / nodeset_dof_map, the geometry span and the mesh nodes
    stc,           \* compute_st_node_connectivity: two meshes and the node map
    pf,            \* index and flag utilities: the arguments and the value of one call
    pn,            \* perturb_nodes: the nodes, the fixed flags and the perturbed nodes
    cr,            \* util::crs objects and the heap blocks they point to
    ex             \* lua_solve: the explicit solvers' timestep and termination setup

lmvars == <<pc, kmax, tau_abs, tau_rel, use_ls, k, u, coord, mesh, du, dx, alpha,
            ls_iter, res_norm, res_at, r0, ksp_reason, u_pre, x_pre, niter>>

\* the finite element space components
fevars == <<gc, fm, rc, dm, gm>>

\* the utilities
utvars == <<stc, pf, pn, cr, ex>>

vars == <<lmvars, anomaly_log, reg, bc, sel, fevars, utvars>>

\* the elements of a sequence
Range(q) == {q[j] : j \in 1..Len(q)}

\* ------------------------------------------------------- floating point
Fin(n) == <<"fin", n>>
Inf == <<"inf", 0>>
NaN == <<"nan", 0>>
IsFinite(x) == x[1] = "fin"

\* the residual norms an assembly may produce
ResVals == {Fin(n) : n \in 0..MaxRes} \cup {Inf, NaN}

\* IEEE a <= b on non-negative values
FLeq(a, b) ==
    IF a[1] = "nan" \/ b[1] = "nan" THEN FALSE
    ELSE IF b[1] = "inf" THEN TRUE
    ELSE IF a[1] = "inf" THEN FALSE
    ELSE a[2] <= b[2]

\* IEEE ta + tr * r for finite non-negative ta, tr (0 * inf is NaN)
FTol(ta, tr, r) ==
    IF r[1] = "fin" THEN Fin(ta + tr * r[2])
    ELSE IF r[1] = "inf" /\ tr > 0 THEN Inf
    ELSE NaN

\* ------------------------------------------------ ConvergenceCriteria
\* done_callback(rk): rk <= tau_abs + tau_rel * r0
done_callback(rk) == FLeq(rk, FTol(tau_abs, tau_rel, r0))

\* ----------------------------------------------------- CorriganLM::solve
\* a loop guard that lets one iteration too many through
LoopGuardOffByOne(kk) == kk <= kmax

\* for(k = 0; k < conv_criteria.kmax; ++k)
LoopGuard(kk) == kk < kmax

\* form_petsc_jacobian_fd(fespace, disc, u, res, jac) followed by
\* form_petsc_mdg_jacobian_fd(fespace, disc, u, coord, mdg_res, jac):
\* the pde block is assembled on the mesh as it stands (the call is not
\* given coord); the mdg block is given coord and writes it to the mesh
\* nodes it perturbs. The norm of the assembled residual is any value.
FormJacobian ==
    /\ mesh' = coord
    /\ res_at' = <<u, coord>>
    /\ res_norm' \in ResVals

\* solve(): entry up to the first evaluation of the loop guard
SolveBegin ==
    /\ pc = "start"
    /\ coord' = mesh                       \* extract_geospan(mesh, coord)
    /\ mesh' = mesh
    /\ res_norm' \in ResVals               \* initial residual and jacobian
    /\ res_at' = <<u, mesh>>
    /\ r0' = res_norm'                     \* VecNorm(res_data, &conv_criteria.r0)
    /\ k' = 0
    /\ niter' = 0
    /\ pc' = IF LoopGuard(0) THEN "ksp" ELSE "returned"
    /\ UNCHANGED <<kmax, tau_abs, tau_rel, use_ls, u, du, dx, alpha, ls_iter,
                   ksp_reason, u_pre, x_pre, anomaly_log, reg, bc, sel, fevars, utvars>>

\* form the subproblem, J^T r, KSPSolve(ksp, Jtr, du_data): the Krylov
\* solve leaves some step in du_data whether or not it converged; its
\* converged reason is never read
KSPSolve ==
    /\ pc = "ksp"
    /\ du' \in StepVals
    /\ dx' \in StepVals
    /\ ksp_reason' \in {"converged", "diverged"}
    /\ u_pre' = u
    /\ x_pre' = coord
    /\ ls_iter' = 0
    /\ niter' = niter + 1                 \* the body of the for loop is entered
    /\ pc' = IF use_ls THEN "linesearch" ELSE "update"
    /\ UNCHANGED <<kmax, tau_abs, tau_rel, use_ls, k, u, coord, mesh, alpha,
                   res_norm, res_at, r0, anomaly_log, reg, bc, sel, fevars, utvars>>

\* if constexpr (no_linesearch): axpy(-1.0, du, u); axpy(-1.0, dx, coord)
UpdateNoLinesearch ==
    /\ pc = "update"
    /\ alpha' = 1
    /\ u' = u - du
    /\ coord' = coord - dx
    /\ pc' = "assemble"
    /\ UNCHANGED <<kmax, tau_abs, tau_rel, use_ls, k, mesh, du, dx, ls_iter,
                   res_norm, res_at, r0, ksp_reason, u_pre, x_pre,
                   anomaly_log, niter, reg, bc, sel, fevars, utvars>>

\* the lambda handed to the line search, called with a trial step length:
\* u is copied to u_step before the axpy, coord is stepped in place, and
\* the returned norm is read by the line search alone
LinesearchTrial(a) ==
    /\ pc = "linesearch"
    /\ ls_iter < LsKmax
    /\ ls_iter' = ls_iter + 1
    /\ coord' = coord - a * dx             \* axpy(-alpha_arg, dx, coord)
    /\ UNCHANGED <<pc, kmax, tau_abs, tau_rel, use_ls, k, u, mesh, du, dx, alpha,
                   res_norm, res_at, r0, ksp_reason, u_pre, x_pre,
                   anomaly_log, niter, reg, bc, sel, fevars, utvars>>

\* the line search returns alpha; axpy(-alpha, du, u); axpy(-alpha, dx, coord)
LinesearchUpdate(a) ==
    /\ pc = "linesearch"
    /\ alpha' = a
    /\ u' = u - a * du
    /\ coord' = coord - a * dx
    /\ pc' = "assemble"
    /\ UNCHANGED <<kmax, tau_abs, tau_rel, use_ls, k, mesh, du, dx, ls_iter,
                   res_norm, res_at, r0, ksp_reason, u_pre, x_pre,
                   anomaly_log, niter, reg, bc, sel, fevars, utvars>>

\* MatZeroEntries(jac); get updated residual and jacobian; VecNorm(res_data, &rk).
\* The update block has been left: alpha and the line search's counter are
\* out of scope.
Reassemble ==
    /\ pc = "assemble"
    /\ FormJacobian
    /\ alpha' = 0
    /\ ls_iter' = 0
    /\ u_pre' = u
    /\ x_pre' = coord
    /\ pc' = "conv"
    /\ UNCHANGED <<kmax, tau_abs, tau_rel, use_ls, k, u, coord, du, dx, r0,
                   ksp_reason, anomaly_log, niter, reg, bc, sel, fevars, utvars>>

\* a convergence test that never leaves the loop early
ConvergenceTestNoBreak ==
    /\ pc = "conv"
    /\ k' = k + 1
    /\ pc' = IF LoopGuard(k + 1) THEN "ksp" ELSE "returned"
    /\ UNCHANGED <<kmax, tau_abs, tau_rel, use_ls, u, coord, mesh, du, dx, alpha,
                   ls_iter, res_norm, res_at, r0, ksp_reason, u_pre, x_pre, anomaly_log, niter, reg, bc, sel, fevars, utvars>>

\* if(conv_criteria.done_callback(rk)) break; else ++k and the loop guard;
\* return k
ConvergenceTest ==
    /\ pc = "conv"
    /\ IF done_callback(res_norm)
       THEN /\ k' = k
            /\ pc' = "returned"
       ELSE /\ k' = k + 1
            /\ pc' = IF LoopGuard(k + 1) THEN "ksp" ELSE "returned"
    /\ UNCHANGED <<kmax, tau_abs, tau_rel, use_ls, u, coord, mesh, du, dx, alpha,
                   ls_iter, res_norm, res_at, r0, ksp_reason, u_pre, x_pre, anomaly_log, niter, reg, bc, sel, fevars, utvars>>

\* the solver as constructed by lua_solve, before solve() is entered
InitSolver ==
    /\ pc = "start"
    /\ kmax \in 0..MaxK
    /\ tau_abs \in 0..1
    /\ tau_rel \in 0..1
    /\ use_ls \in BOOLEAN
    /\ k = 0
    /\ u = 0
    /\ coord = 0
    /\ mesh = 0
    /\ du = 0
    /\ dx = 0
    /\ alpha = 0
    /\ ls_iter = 0
    /\ res_norm = Fin(0)
    /\ res_at = <<0, 0>>
    /\ r0 = Fin(0)
    /\ ksp_reason = "none"
    /\ u_pre = 0
    /\ x_pre = 0
    /\ niter = 0

\* no solver constructed
NoSolver ==
    /\ pc = "off"
    /\ kmax = 0 /\ tau_abs = 0 /\ tau_rel = 0 /\ use_ls = FALSE
    /\ k = 0 /\ u = 0 /\ coord = 0 /\ mesh = 0 /\ du = 0 /\ dx = 0
    /\ alpha = 0 /\ ls_iter = 0
    /\ res_norm = Fin(0) /\ res_at = <<0, 0>> /\ r0 = Fin(0)
    /\ ksp_reason = "none" /\ u_pre = 0 /\ x_pre = 0 /\ niter = 0

\* ======================================================================
\* The subproblem regulariser: the diagonal the explicitly formed
\* subproblem adds to J^T J, and the lambda * x term of the matrix-free
\* operator gn_subproblem. Values are integers in units of 1e-8.
\* ======================================================================

\* std::max(1e-8, ...): the floor on an element's |det J|
DetJFloor == 1

\* T detJ = 1.0: the value the minimum over quadrature points starts from
DetJOne == 100000000

\* |det J| at a quadrature point: inverted or collapsed (0), half, unit, double
DetVals == {0, DetJOne \div 2, DetJOne, 2 * DetJOne}

\* lambda_lag: off, or 1.0
LagVals == {0, DetJOne}

\* a pde dof (column 1) and the nodes of a two-element segment mesh
NPde == 1
MeshNodes == {1, 2, 3}
ElNodes == <<{1, 2}, {2, 3}>>

Max2(a, b) == IF a >= b THEN a ELSE b
Min2(a, b) == IF a <= b THEN a ELSE b

\* geo_dof_map::inv_selected_nodes[inode]: the position of inode in the
\* sorted selected_nodes, or selected_nodes.size() when it is not selected
inv_selected_nodes(selected, inode) ==
    IF inode \in selected
    THEN Cardinality({n \in selected : n < inode})
    ELSE Cardinality(selected)

\* the minimum |det J| over the quadrature points of an element, as the
\* explicit branch computes it: started from 1.0, floored at 1e-8
ElementDetJ(dets) ==
    LET RECURSIVE MinOver(_, _)
        MinOver(acc, igauss) ==
            IF igauss > Len(dets) THEN acc
            ELSE MinOver(Min2(acc, dets[igauss]), igauss + 1)
    IN Max2(DetJFloor, MinOver(DetJOne, 1))

\* the lambda_lag / detJ added to the row of node inode: every element
\* holding the node contributes
LagrangianTerm(r, inode) ==
    LET RECURSIVE SumOver(_)
        SumOver(iel) ==
            IF iel > Len(ElNodes) THEN 0
            ELSE (IF inode \in ElNodes[iel]
                  THEN r.lambda_lag \div ElementDetJ(r.dets[iel])
                  ELSE 0) + SumOver(iel + 1)
    IN SumOver(1)

\* the selected node whose geometry dof is column NPde + g (one free
\* parameter per selected node)
NodeOfGeoDof(r, g) ==
    CHOOSE n \in r.selected : inv_selected_nodes(r.selected, n) = g - 1

\* explicitly_form_subproblem: the vector handed to MatDiagonalSet
LambdaExplicit(r) ==
    [i \in 1..(NPde + Cardinality(r.selected)) |->
        IF i <= NPde
        THEN r.colnorms[i] * r.lambda_u
        ELSE Max2(r.lambda_b, r.colnorms[i] * r.lambda_b)
             + LagrangianTerm(r, NodeOfGeoDof(r, i - NPde))]

\* impl::gn_subproblem: the lambdax it adds to J^T (J x)
gn_subproblem(r, x) ==
    [i \in 1..(NPde + Cardinality(r.selected)) |->
        IF i <= NPde
        THEN x[i] * r.lambda_u * r.colnorms[i]
        ELSE x[i] * Max2(r.lambda_b, r.lambda_b * r.colnorms[i])]

\* the unit vectors: applying the operator to e_j reads off column j
UnitVectors(n) == {[i \in 1..n |-> IF i = j THEN 1 ELSE 0] : j \in 1..n}

restReg == <<lmvars, anomaly_log, bc, sel, fevars, utvars>>

\* solve() with explicitly_form_subproblem: the regulariser of one iteration
RegFormExplicit ==
    /\ reg.phase = "on"
    /\ ~reg.formed
    /\ reg' = [reg EXCEPT !.formed = TRUE, !.lambda_view = LambdaExplicit(reg)]
    /\ UNCHANGED restReg

\* the Krylov solver applies the shell matrix to a vector
RegShellMult(x) ==
    /\ reg.phase = "on"
    /\ reg' = [reg EXCEPT !.multiplied = TRUE, !.x = x, !.lambdax = gn_subproblem(reg, x)]
    /\ UNCHANGED restReg

\* a Jacobian's column norms, the element determinants, the selected nodes
\* and the regularisation parameters of a solver
InitReg ==
    \E selected \in (SUBSET MeshNodes) \ {{}} :
    \E colnorms \in [1..(NPde + Cardinality(selected)) -> 0..MaxNorm] :
    \E dets \in [1..Len(ElNodes) -> {<<d>> : d \in DetVals}] :
    \E lu \in 0..1, lb \in 1..2, ll \in LagVals :
        reg = [phase |-> "on", selected |-> selected, colnorms |-> colnorms,
               dets |-> dets, lambda_u |-> lu, lambda_b |-> lb, lambda_lag |-> ll,
               formed |-> FALSE, lambda_view |-> <<>>,
               multiplied |-> FALSE, x |-> <<>>, lambdax |-> <<>>]

NoReg == reg = [phase |-> "off"]

NextReg ==
    \/ RegFormExplicit
    \/ \E x \in UnitVectors(NPde + Cardinality(reg.selected)) : RegShellMult(x)

\* ======================================================================
\* Boundary conditions: the name lookup used when a mesh is configured and
\* the dispatch of ConservationLawDDG::boundaryIntegral on a face's bctype.
\* ======================================================================

\* enum class BOUNDARY_CONDITIONS
BOUNDARY_CONDITIONS ==
    {"PERIODIC", "PARALLEL_COM", "NEUMANN", "DIRICHLET", "EXTRAPOLATION",
     "RIEMANN", "NO_SLIP_ISOTHERMAL", "SLIP_WALL", "WALL_GENERAL", "INLET",
     "OUTLET", "SPACETIME_PAST", "SPACETIME_FUTURE", "INTERIOR"}

\* the names a configuration may give: the documented Lua names, two
\* spellings in other case, and names no branch of the lookup knows
BCNames ==
    {"dirichlet", "Dirichlet", "neumann", "extrapolation", "spacetime-future",
     "spacetime-past", "slip wall", "isothermal", "no-slip isothermal", "wall",
     "General Wall", "general wall", "riemann", "characteristic",
     "periodic", "outflow"}

\* the names the lookup documents (the "Lua name" comments of the enum)
DocumentedNames ==
    {"dirichlet", "neumann", "extrapolation", "spacetime-future",
     "spacetime-past", "slip wall", "isothermal", "no-slip isothermal", "wall",
     "general wall", "riemann", "characteristic"}

\* std::tolower over the characters of a name
ToLower(name) ==
    CASE name = "Dirichlet" -> "dirichlet"
      [] name = "General Wall" -> "general wall"
      [] OTHER -> name

\* util::eq_icase: equality up to case
eq_icase(a, b) == ToLower(a) = ToLower(b)

\* util::eq_icase_any
eq_icase_any(a, names) == \E b \in names : eq_icase(a, b)

\* get_bc_from_name: the chain of ifs, INTERIOR when none matches
get_bc_from_name(bcname) ==
    IF eq_icase(bcname, "dirichlet") THEN "DIRICHLET"
    ELSE IF eq_icase(bcname, "neumann") THEN "NEUMANN"
    ELSE IF eq_icase(bcname, "extrapolation") THEN "EXTRAPOLATION"
    ELSE IF eq_icase(bcname, "spacetime-future") THEN "SPACETIME_FUTURE"
    ELSE IF eq_icase(bcname, "spacetime-past") THEN "SPACETIME_PAST"
    ELSE IF eq_icase(bcname, "slip wall") THEN "SLIP_WALL"
    ELSE IF eq_icase_any(bcname, {"isothermal", "no-slip isothermal"}) THEN "NO_SLIP_ISOTHERMAL"
    ELSE IF eq_icase_any(bcname, {"wall", "general wall"}) THEN "NO_SLIP_ISOTHERMAL"
    ELSE IF eq_icase_any(bcname, {"riemann", "characteristic"}) THEN "RIEMANN"
    ELSE "INTERIOR"

\* the physical fluxes a discretisation is built on: one without apply_bc,
\* and navier_stokes::Flux, which has it
PhysicalFluxes == {"no_apply_bc", "navier_stokes"}

\* concept implements_bcs<PFlux>
implements_bcs(pflux) == pflux = "navier_stokes"

\* navier_stokes::Flux::apply_bc: SLIP_WALL is computed; any other
\* bctype logs "Unsupported BC" and returns zero-initialised uR, graduR
apply_bc_logs(bctype) == bctype # "SLIP_WALL"

\* boundaryIntegral: the switch on trace.face->bctype. The result is
\* <<the face adds to resL, the anomalies logged>>.
boundaryIntegral(bctype, pflux, has_st_info) ==
    CASE bctype = "DIRICHLET" -> <<TRUE, <<>>>>
      [] bctype = "NEUMANN" -> <<TRUE, <<>>>>
      [] bctype = "SPACETIME_PAST" -> <<has_st_info, <<>>>>
      [] bctype \in {"SPACETIME_FUTURE", "EXTRAPOLATION"} -> <<TRUE, <<>>>>
      [] OTHER ->
            IF implements_bcs(pflux)
            THEN <<TRUE, IF apply_bc_logs(bctype) THEN <<"Unsupported BC">> ELSE <<>>>>
            ELSE <<FALSE, <<>>>>

restBC == <<lmvars, reg, sel, fevars, utvars>>

\* a boundary face whose condition the configuration names
BcReadName(bcname) ==
    /\ bc.phase = "config"
    /\ Len(bc.faces) < MaxFaces
    /\ bc' = [bc EXCEPT !.faces = Append(@, [named |-> TRUE, name |-> bcname,
                                             bctype |-> get_bc_from_name(bcname)])]
    /\ UNCHANGED <<anomaly_log, restBC>>

\* a boundary face built with its bctype given as the enum value
BcFaceOfType(bctype) ==
    /\ bc.phase = "config"
    /\ Len(bc.faces) < MaxFaces
    /\ bc' = [bc EXCEPT !.faces = Append(@, [named |-> FALSE, name |-> "",
                                             bctype |-> bctype])]
    /\ UNCHANGED <<anomaly_log, restBC>>

\* residual assembly reaches the boundary traces
BcBeginAssembly ==
    /\ bc.phase = "config"
    /\ bc' = [bc EXCEPT !.phase = "assembly", !.idx = 1]
    /\ UNCHANGED <<anomaly_log, restBC>>

\* boundaryIntegral on the next boundary trace
BcBoundaryIntegral ==
    /\ bc.phase = "assembly"
    /\ bc.idx <= Len(bc.faces)
    /\ LET out == boundaryIntegral(bc.faces[bc.idx].bctype, bc.pflux, bc.has_st_info)
       IN /\ bc' = [bc EXCEPT !.idx = @ + 1,
                              !.contributed = IF out[1] THEN @ \cup {bc.idx} ELSE @]
          /\ anomaly_log' = anomaly_log \o out[2]
    /\ UNCHANGED restBC

\* the loop over the boundary traces ends; the residual is handed back
BcEndAssembly ==
    /\ bc.phase = "assembly"
    /\ bc.idx > Len(bc.faces)
    /\ bc' = [bc EXCEPT !.phase = "assembled"]
    /\ UNCHANGED <<anomaly_log, restBC>>

InitBC ==
    \E pflux \in PhysicalFluxes, st \in BOOLEAN :
        bc = [phase |-> "config", faces |-> <<>>, idx |-> 0, pflux |-> pflux,
              has_st_info |-> st, contributed |-> {}]

NextBC ==
    \/ \E bcname \in BCNames : BcReadName(bcname)
    \/ \E bctype \in BOUNDARY_CONDITIONS \ {"INTERIOR"} : BcFaceOfType(bctype)
    \/ BcBeginAssembly
    \/ BcBoundaryIntegral
    \/ BcEndAssembly

\* ======================================================================
\* lua_select_mdg_geometry: the selection of traces by interface
\* conservation residual. Norms and thresholds are integers in units of 0.1.
\* ======================================================================

\* T ic_selection_threshold = 0.1
DefaultThreshold == 1

\* the threshold a configuration may hold under mdg.ic_selection_threshold:
\* nothing, a number, or a function of the cycle number
ThresholdConfigs ==
    {[kind |-> "none"]}
    \cup {[kind |-> "value", value |-> v] : v \in 0..MaxIcNorm}
    \cup {[kind |-> "function", fn |-> f] : f \in [0..MaxCycle -> 0..MaxIcNorm]}

\* the threshold as lines 95-105 settle it
ic_selection_threshold(cfg, icycle) ==
    LET from_value == IF cfg.kind = "value" THEN cfg.value ELSE DefaultThreshold
    IN IF cfg.kind = "function" THEN cfg.fn[icycle] ELSE from_value

\* a test that drops the traces whose norm equals the threshold
SelectTestStrict(norm, threshold) == norm > threshold

\* if(ic_res.vector_norm() >= ic_selection_threshold)
SelectTest(norm, threshold) == norm >= threshold

\* FESpace::get_interior_traces: the indices of traces[interior_trace_start,
\* interior_trace_end), here the first n_interior traces
get_interior_traces(s) == 1..s.n_interior

restSel == <<lmvars, anomaly_log, reg, bc, fevars, utvars>>

\* entry: read config_tbl["mdg"] and the threshold; without an mdg table
\* the map of no traces is returned at once
SelBegin ==
    /\ sel.phase = "start"
    /\ sel' = IF sel.mdg
              THEN [sel EXCEPT !.phase = "loop", !.i = 1,
                               !.threshold = ic_selection_threshold(sel.cfg, sel.icycle)]
              ELSE [sel EXCEPT !.phase = "returned"]
    /\ UNCHANGED restSel

\* one pass of the loop over the interior traces: the norm of the trace's
\* interface conservation residual against the threshold
SelTrace ==
    /\ sel.phase = "loop"
    /\ sel.i \in get_interior_traces(sel)
    /\ sel' = [sel EXCEPT !.i = @ + 1,
                          !.selected_traces =
                              IF SelectTest(sel.ic_norm[sel.i], sel.threshold)
                              THEN Append(@, sel.i) ELSE @]
    /\ UNCHANGED restSel

\* the loop is over: geo_dof_map geo_map{selected_traces, fespace}
SelReturn ==
    /\ sel.phase = "loop"
    /\ sel.i \notin get_interior_traces(sel)
    /\ sel' = [sel EXCEPT !.phase = "returned"]
    /\ UNCHANGED restSel

\* a mesh's traces, interior ones first, each with the norm of the
\* interface conservation residual the current solution gives it, and a
\* configuration
InitSel ==
    \E n \in 0..MaxTraces :
    \E ni \in 0..n :
    \E norms \in [1..n -> 0..MaxIcNorm] :
    \E mdg \in BOOLEAN, cfg \in ThresholdConfigs, icycle \in 0..MaxCycle :
        sel = [phase |-> "start", n_traces |-> n, n_interior |-> ni,
               ic_norm |-> norms, mdg |-> mdg, cfg |-> cfg, icycle |-> icycle,
               threshold |-> 0, i |-> 0, selected_traces |-> <<>>]

NextSel ==
    \/ SelBegin
    \/ SelTrace
    \/ SelReturn

\* ======================================================================
\* lua_select_mdg_geometry: the geometry constraints
\* ======================================================================
\* the configuration tables under which constraints are registered
MeshTables == {"uniform_mesh", "mixed_uniform_mesh", "burgers_mesh"}

\* the bctypes of the boundary faces explored
GcBcTypes == {"DIRICHLET", "NEUMANN"}

\* geo_map.register_parametric_node(inode, parameterization): the node's
\* parameterization is set, replacing an earlier one
register_parametric_node(param, inode, kind) == [param EXCEPT ![inode] = kind]

\* mesh_parameterizations::hyper_rectangle: the nodes on the sides of the
\* bounding box, here the nodes of the boundary faces, slide on their side
hyper_rectangle(g, param) ==
    [n \in DOMAIN param |->
        IF \E i \in 1..Len(g.faces) : n \in g.faces[i].nodes
        THEN "hyper_rectangle" ELSE param[n]]

\* the nodes of a face in the order nodes_span() gives them
RECURSIVE FixNodes(_, _)
FixNodes(nodes, param) ==
    IF nodes = {} THEN param
    ELSE LET inode == CHOOSE n \in nodes : \A m \in nodes : n <= m
         IN FixNodes(nodes \ {inode}, register_parametric_node(param, inode, "Fixed"))

\* "Dirichlet BC => nodes cannot move": the loop over the boundary traces
RECURSIVE FixDirichlet(_, _, _)
FixDirichlet(faces, i, param) ==
    IF i > Len(faces) THEN param
    ELSE FixDirichlet(faces, i + 1,
            IF faces[i].bctype = "DIRICHLET"
            THEN FixNodes(faces[i].nodes, param) ELSE param)

\* the body shared by the three mesh tables
ConstrainGeometry(g) == FixDirichlet(g.faces, 1, hyper_rectangle(g, g.param))

restGC == <<lmvars, anomaly_log, reg, bc, sel, fm, rc, dm, gm, utvars>>

\* entry: with an mdg table the traces are selected and the map is built;
\* without one the map of no traces is returned at once
GcBegin ==
    /\ gc.phase = "start"
    /\ gc' = [gc EXCEPT !.phase = IF gc.mdg THEN "uniform_mesh" ELSE "returned"]
    /\ UNCHANGED restGC

\* if(uniform_mesh_tbl_opt)
GcUniformMesh ==
    /\ gc.phase = "uniform_mesh"
    /\ gc' = [gc EXCEPT !.phase = "mixed_uniform_mesh",
                        !.param = IF "uniform_mesh" \in gc.tables
                                  THEN ConstrainGeometry(gc) ELSE @]
    /\ UNCHANGED restGC

\* if(mixed_uniform_mesh_tbl_opt)
GcMixedUniformMesh ==
    /\ gc.phase = "mixed_uniform_mesh"
    /\ gc' = [gc EXCEPT !.phase = "burgers_mesh",
                        !.param = IF "mixed_uniform_mesh" \in gc.tables
                                  THEN ConstrainGeometry(gc) ELSE @]
    /\ UNCHANGED restGC

\* if constexpr(ndim == 2) if(burgers_mesh_tbl_opt); then return geo_map
GcBurgersMesh ==
    /\ gc.phase = "burgers_mesh"
    /\ gc' = [gc EXCEPT !.phase = "returned",
                        !.param = IF gc.ndim = 2 /\ "burgers_mesh" \in gc.tables
                                  THEN ConstrainGeometry(gc) ELSE @]
    /\ UNCHANGED restGC

\* a configuration and the boundary faces of the mesh the FESpace is on:
\* point faces in 1D, segment faces in 2D
InitGC ==
    \E mdg \in BOOLEAN, tables \in SUBSET MeshTables, ndim \in 1..2 :
    \E nf \in 0..MaxBdyFaces :
    \E faces \in [1..nf -> [bctype : GcBcTypes,
                            nodes : {ns \in SUBSET (1..MaxGcNodes) : Cardinality(ns) = ndim}]] :
        gc = [phase |-> "start", mdg |-> mdg, tables |-> tables, ndim |-> ndim,
              faces |-> faces, param |-> [n \in 1..MaxGcNodes |-> "none"]]

NextGC ==
    \/ GcBegin
    \/ GcUniformMesh
    \/ GcMixedUniformMesh
    \/ GcBurgersMesh

\* ======================================================================
\* Mesh faces: find_interior_faces, mixed_uniform_mesh, burgers_linear_mesh
\* ======================================================================
\* the bctypes handed to mixed_uniform_mesh for the sides of the box;
\* INTERIOR is what get_bc_from_name gives for a name it does not know
SideBcTypes == {"DIRICHLET", "INTERIOR", "PARALLEL_COM"}

\* quad_ratio per direction: all triangles or all quads
QuadRatios == {0, 1}

\* the vertex sets of the faces of an element: a first order quad with the
\* tensor product node order (first coordinate slowest), a triangle
ElementFaces(el) ==
    IF el.domain_type = "HYPERCUBE"
    THEN {{el.nodes[1], el.nodes[2]}, {el.nodes[3], el.nodes[4]},
          {el.nodes[1], el.nodes[3]}, {el.nodes[2], el.nodes[4]}}
    ELSE {{el.nodes[1], el.nodes[2]}, {el.nodes[2], el.nodes[3]},
          {el.nodes[1], el.nodes[3]}}

\* GeometricElement::n_faces
n_faces(el) == Cardinality(ElementFaces(el))

\* make_face(ielem, jelem, elptr_i, elptr_j): the face that is the
\* intersection of the two elements, if one face of each has the same
\* vertex set
make_face(ielem, jelem, el_i, el_j) ==
    LET common == ElementFaces(el_i) \cap ElementFaces(el_j)
    IN IF common = {} THEN <<FALSE, <<>>>>
       ELSE <<TRUE, [elemL |-> ielem, elemR |-> jelem, bctype |-> "INTERIOR",
                     nodes |-> CHOOSE f \in common : TRUE]>>

\* the ascending sequence of the members of a set of integers
RECURSIVE SortedSeq(_)
SortedSeq(S) ==
    IF S = {} THEN <<>>
    ELSE LET m == CHOOSE x \in S : \A y \in S : x <= y
         IN <<m>> \o SortedSeq(S \ {m})

\* elsup[inode], sorted and without duplicates
elsup(elements, inode) ==
    SortedSeq({e \in 1..Len(elements) :
                  \E q \in 1..Len(elements[e].nodes) : elements[e].nodes[q] = inode})

\* the skip test of find_interior_faces
SkipPairNoContains(ielem, jelem, connected) == ielem = jelem

SkipPairNoSelf(ielem, jelem, connected) == jelem \in Range(connected)

SkipPair(ielem, jelem, connected) ==
    ielem = jelem \/ jelem \in Range(connected)

\* the loop over elsup[inode] from lower_bound(ielem) on; acc is
\* <<connected_elements, mesh.faces>>
RECURSIVE JelemLoop(_, _, _, _, _)
JelemLoop(elements, ielem, js, p, acc) ==
    IF p > Len(js) THEN acc
    ELSE IF js[p] < ielem \/ SkipPair(ielem, js[p], acc[1])
    THEN JelemLoop(elements, ielem, js, p + 1, acc)
    ELSE LET face_opt == make_face(ielem, js[p], elements[ielem], elements[js[p]])
         IN IF ~face_opt[1]
            THEN JelemLoop(elements, ielem, js, p + 1, acc)
            ELSE LET acc2 == <<Append(acc[1], js[p]), Append(acc[2], face_opt[2])>>
                 IN IF Len(acc2[1]) = n_faces(elements[ielem])
                    THEN acc2
                    ELSE JelemLoop(elements, ielem, js, p + 1, acc2)

\* the loop over the nodes of element ielem
RECURSIVE NodeLoop(_, _, _, _)
NodeLoop(elements, ielem, q, acc) ==
    IF q > Len(elements[ielem].nodes) THEN acc
    ELSE NodeLoop(elements, ielem, q + 1,
            JelemLoop(elements, ielem, elsup(elements, elements[ielem].nodes[q]), 1, acc))

\* mixed_uniform_mesh: the elements of cell c (ixquad slowest)
MixedCell(nx, ny, qx, qy, c) ==
    LET ix == c \div ny
        iy == c % ny
        nnodex == nx + 1
        bl == iy * nnodex + ix
        br == iy * nnodex + ix + 1
        tl == (iy + 1) * nnodex + ix
        tr == (iy + 1) * nnodex + ix + 1
        half_quad_x == (nx * qx) \div 2
        half_quad_y == (ny * qy) \div 2
        is_quad == \/ ix < half_quad_x
                   \/ (nx - ix) <= half_quad_x
                   \/ iy < half_quad_y
                   \/ (ny - iy) <= half_quad_y
    IN IF is_quad
       THEN << [domain_type |-> "HYPERCUBE", nodes |-> <<bl, tl, br, tr>>] >>
       ELSE << [domain_type |-> "SIMPLEX", nodes |-> <<bl, br, tl>>],
               [domain_type |-> "SIMPLEX", nodes |-> <<tl, br, tr>>] >>

RECURSIVE MixedElements(_, _, _, _, _)
MixedElements(nx, ny, qx, qy, c) ==
    IF c >= nx * ny THEN <<>>
    ELSE MixedCell(nx, ny, qx, qy, c) \o MixedElements(nx, ny, qx, qy, c + 1)

\* mixed_uniform_mesh: bface_nodes with bcinfos; bcs is (left, bottom,
\* right, top)
RECURSIVE MixedBottomTop(_, _, _, _)
MixedBottomTop(nx, ny, bcs, ix) ==
    IF ix >= nx THEN <<>>
    ELSE << [nodes |-> {ix, ix + 1}, bctype |-> bcs[2]],
            [nodes |-> {ny * (nx + 1) + ix, ny * (nx + 1) + ix + 1}, bctype |-> bcs[4]] >>
         \o MixedBottomTop(nx, ny, bcs, ix + 1)

RECURSIVE MixedLeftRight(_, _, _, _)
MixedLeftRight(nx, ny, bcs, iy) ==
    IF iy >= ny THEN <<>>
    ELSE << [nodes |-> {iy * (nx + 1), (iy + 1) * (nx + 1)}, bctype |-> bcs[1]],
            [nodes |-> {iy * (nx + 1) + nx, (iy + 1) * (nx + 1) + nx}, bctype |-> bcs[3]] >>
         \o MixedLeftRight(nx, ny, bcs, iy + 1)

MixedBfaces(nx, ny, bcs) == MixedBottomTop(nx, ny, bcs, 0) \o MixedLeftRight(nx, ny, bcs, 0)

\* burgers_linear_mesh: the elements made by hand
BurgersElements ==
    << [domain_type |-> "HYPERCUBE", nodes |-> <<0, 4, 1, 5>>],
       [domain_type |-> "HYPERCUBE", nodes |-> <<1, 5, 2, 6>>],
       [domain_type |-> "HYPERCUBE", nodes |-> <<2, 6, 3, 7>>],
       [domain_type |-> "HYPERCUBE", nodes |-> <<4, 8, 5, 9>>],
       [domain_type |-> "HYPERCUBE", nodes |-> <<5, 9, 6, 10>>],
       [domain_type |-> "HYPERCUBE", nodes |-> <<6, 10, 7, 11>>] >>

\* burgers_linear_mesh: the add_bdy_face calls (elements counted from 1)
BurgersBfaces ==
    << [ielem |-> 1, nodes |-> {0, 1}, bctype |-> "DIRICHLET"],
       [ielem |-> 2, nodes |-> {1, 2}, bctype |-> "DIRICHLET"],
       [ielem |-> 3, nodes |-> {2, 3}, bctype |-> "DIRICHLET"],
       [ielem |-> 1, nodes |-> {0, 4}, bctype |-> "DIRICHLET"],
       [ielem |-> 4, nodes |-> {4, 8}, bctype |-> "DIRICHLET"],
       [ielem |-> 3, nodes |-> {3, 7}, bctype |-> "DIRICHLET"],
       [ielem |-> 6, nodes |-> {7, 11}, bctype |-> "DIRICHLET"],
       [ielem |-> 4, nodes |-> {8, 9}, bctype |-> "SPACETIME_FUTURE"],
       [ielem |-> 5, nodes |-> {9, 10}, bctype |-> "SPACETIME_FUTURE"],
       [ielem |-> 6, nodes |-> {10, 11}, bctype |-> "SPACETIME_FUTURE"] >>

\* boundary_face_info(nodes, elptr): the nodes are a face of the element
boundary_face_info(nodes, el) == nodes \in ElementFaces(el)

\* the boundary face add_bdy_face and mixed_uniform_mesh make:
\* make_face(..., ielem, ielem, ..., bctype, bcflag)
BdyFace(ielem, nodes, bctype) ==
    [elemL |-> ielem, elemR |-> ielem, bctype |-> bctype, nodes |-> nodes]

\* the faces a sequence of matched boundary node lists gives element ielem
RECURSIVE BdyFacesOf(_, _, _)
BdyFacesOf(ielem, matched, p) ==
    IF p > Len(matched) THEN <<>>
    ELSE <<BdyFace(ielem, matched[p].nodes, matched[p].bctype)>>
         \o BdyFacesOf(ielem, matched, p + 1)

restFM == <<lmvars, anomaly_log, reg, bc, sel, gc, rc, dm, gm, utvars>>

\* one pass of the element loop of find_interior_faces; after the last
\* element the constructor records the interior range
FmFindInteriorFaces ==
    /\ fm.phase = "interior"
    /\ fm.ielem <= Len(fm.elements)
    /\ LET acc == NodeLoop(fm.elements, fm.ielem, 1, <<<<>>, fm.faces>>)
           last == fm.ielem = Len(fm.elements)
       IN fm' = [fm EXCEPT !.faces = acc[2],
                           !.ielem = IF last THEN 1 ELSE @ + 1,
                           !.phase = IF last THEN "boundary" ELSE @,
                           !.interiorFaceStart = 0,
                           !.interiorFaceEnd = IF last THEN Len(acc[2]) ELSE @,
                           !.bdyFaceStart = IF last THEN Len(acc[2]) ELSE @]
    /\ UNCHANGED restFM

\* mixed_uniform_mesh: one pass of the element loop over bface_nodes; a
\* node list that is a face of the element is made a face and erased
FmMixedBdyFaces ==
    /\ fm.phase = "boundary"
    /\ fm.kind = "mixed_uniform_mesh"
    /\ fm.ielem <= Len(fm.elements)
    /\ LET el == fm.elements[fm.ielem]
           matched == SelectSeq(fm.bfaces, LAMBDA b : boundary_face_info(b.nodes, el))
           others == SelectSeq(fm.bfaces, LAMBDA b : ~boundary_face_info(b.nodes, el))
           faces == fm.faces \o BdyFacesOf(fm.ielem, matched, 1)
           last == fm.ielem = Len(fm.elements)
       IN fm' = [fm EXCEPT !.faces = faces,
                           !.bfaces = others,
                           !.ielem = @ + 1,
                           !.phase = IF last THEN "mesh" ELSE @,
                           !.bdyFaceEnd = IF last THEN Len(faces) ELSE @]
    /\ UNCHANGED restFM

\* burgers_linear_mesh: one add_bdy_face call; after the last one the
\* boundary range is closed
FmBurgersBdyFace ==
    /\ fm.phase = "boundary"
    /\ fm.kind = "burgers_linear_mesh"
    /\ fm.bfaces # <<>>
    /\ LET b == Head(fm.bfaces)
           faces == IF boundary_face_info(b.nodes, fm.elements[b.ielem])
                    THEN Append(fm.faces, BdyFace(b.ielem, b.nodes, b.bctype))
                    ELSE fm.faces
           last == Len(fm.bfaces) = 1
       IN fm' = [fm EXCEPT !.faces = faces,
                           !.bfaces = Tail(@),
                           !.phase = IF last THEN "mesh" ELSE @,
                           !.bdyFaceEnd = IF last THEN Len(faces) ELSE @]
    /\ UNCHANGED restFM

\* ======================================================================
\* FESpace: the trace spaces, and the trace loops of residual assembly
\* ======================================================================
\* TraceSpace::make_bdy_trace_space(facptr, elLptr, ...): the trace of a
\* boundary face has the left element on both sides
make_bdy_trace_space_other(fac, elL, facidx) ==
    [facidx |-> facidx, elL |-> elL, elR |-> elL + 1]

make_bdy_trace_space(fac, elL, facidx) ==
    [facidx |-> facidx, elL |-> elL, elR |-> elL]

\* an element received from another rank, outside this rank's element list
CommElement == 0

\* the body of the loop over meshptr->faces: the trace built on fac
MakeTrace(fac, facidx, mpi, imleft) ==
    LET is_interior == fac.bctype = "INTERIOR"
        parallel == fac.bctype = "PARALLEL_COM"
        elptrL == IF mpi /\ parallel /\ ~imleft THEN CommElement ELSE fac.elemL
        elptrR == IF mpi /\ parallel
                  THEN (IF imleft THEN CommElement ELSE fac.elemR)
                  ELSE (IF is_interior THEN fac.elemR ELSE fac.elemL)
    IN IF is_interior \/ parallel
       THEN [facidx |-> facidx, elL |-> elptrL, elR |-> elptrR]
       ELSE make_bdy_trace_space(fac, elptrL, facidx)

\* trace_integral scatters into resL and resR, the residual blocks of the
\* trace's two elements
trace_integral(trace) == {trace.elL, trace.elR}

\* boundaryIntegral has resL alone to write to
boundaryIntegralBlocks(trace) == {trace.elL}

\* the loop that fills fac_surr_el_ragged: <<element, itrace>> for every
\* push_back, in order. A PARALLEL_COM trace is pushed to the local
\* element alone; any other trace to elL and to elR.
RECURSIVE FacSurrElPushes(_, _, _, _)
FacSurrElPushes(traces, faces, imleft, n) ==
    IF n = 0 THEN <<>>
    ELSE LET itrace == n - 1
             trace == traces[n]
         IN FacSurrElPushes(traces, faces, imleft, n - 1) \o
            (IF faces[n].bctype = "PARALLEL_COM"
             THEN (IF imleft THEN <<<<trace.elL, itrace>>>> ELSE <<<<trace.elR, itrace>>>>)
             ELSE <<<<trace.elL, itrace>>, <<trace.elR, itrace>>>>)

\* fac_surr_el: the row of every element
fac_surr_el(traces, faces, nelem, imleft) ==
    LET pushes == FacSurrElPushes(traces, faces, imleft, Len(traces))
        itraces(row) == [i \in 1..Len(row) |-> row[i][2]]
    IN [e \in 1..nelem |-> itraces(SelectSeq(pushes, LAMBDA p : p[1] = e))]

\* an FESpace is constructed on the finished mesh; the build and the side
\* this rank has of its parallel faces only matter with PARALLEL_COM faces
FmFESpaceBegin ==
    /\ fm.phase = "mesh"
    /\ \E mpi \in (IF \E i \in 1..Len(fm.faces) : fm.faces[i].bctype = "PARALLEL_COM"
                   THEN BOOLEAN ELSE {FALSE}) :
       \E imleft \in (IF mpi THEN BOOLEAN ELSE {TRUE}) :
          fm' = [fm EXCEPT !.phase = "traces", !.mpi = mpi, !.imleft = imleft]
    /\ UNCHANGED restFM

\* one pass of the loop over meshptr->faces
FmTrace ==
    /\ fm.phase = "traces"
    /\ Len(fm.traces) < Len(fm.faces)
    /\ LET facidx == Len(fm.traces)
       IN fm' = [fm EXCEPT !.traces =
                    Append(@, MakeTrace(fm.faces[facidx + 1], facidx, fm.mpi, fm.imleft))]
    /\ UNCHANGED restFM

\* "reuse the face indexing from the mesh", and the connectivity matrices
FmFESpaceRanges ==
    /\ fm.phase = "traces"
    /\ Len(fm.traces) = Len(fm.faces)
    /\ fm' = [fm EXCEPT !.phase = "assembly",
                        !.interior_trace_start = fm.interiorFaceStart,
                        !.interior_trace_end = fm.interiorFaceEnd,
                        !.bdy_trace_start = fm.bdyFaceStart,
                        !.bdy_trace_end = fm.bdyFaceEnd,
                        !.fac_surr_el = fac_surr_el(fm.traces, fm.faces,
                                                    Len(fm.elements), fm.imleft),
                        !.itrace = fm.interiorFaceStart]
    /\ UNCHANGED restFM

\* residual assembly, the loop over get_interior_traces()
FmTraceIntegral ==
    /\ fm.phase = "assembly"
    /\ fm.itrace < fm.interior_trace_end
    /\ fm' = [fm EXCEPT !.itrace = IF @ + 1 = fm.interior_trace_end
                                   THEN fm.bdy_trace_start ELSE @ + 1,
                        !.written = Append(@, trace_integral(fm.traces[fm.itrace + 1]))]
    /\ UNCHANGED restFM

\* residual assembly, the loop over get_boundary_traces()
FmBoundaryIntegral ==
    /\ fm.phase = "assembly"
    /\ fm.itrace >= fm.interior_trace_end
    /\ fm.itrace >= fm.bdy_trace_start
    /\ fm.itrace < fm.bdy_trace_end
    /\ fm' = [fm EXCEPT !.itrace = @ + 1,
                        !.written = Append(@, boundaryIntegralBlocks(fm.traces[fm.itrace + 1]))]
    /\ UNCHANGED restFM

\* both trace loops are over
FmEndAssembly ==
    /\ fm.phase = "assembly"
    /\ fm.itrace >= fm.interior_trace_end
    /\ fm.itrace >= fm.bdy_trace_end
    /\ fm' = [fm EXCEPT !.phase = "assembled"]
    /\ UNCHANGED restFM

\* the state of a mesh under construction once its elements exist
MeshStart(kind, elements, bfaces) ==
    [phase |-> "interior", kind |-> kind, elements |-> elements, bfaces |-> bfaces,
     faces |-> <<>>, ielem |-> 1,
     interiorFaceStart |-> 0, interiorFaceEnd |-> 0, bdyFaceStart |-> 0, bdyFaceEnd |-> 0,
     mpi |-> FALSE, imleft |-> TRUE, traces |-> <<>>,
     interior_trace_start |-> 0, interior_trace_end |-> 0,
     bdy_trace_start |-> 0, bdy_trace_end |-> 0, fac_surr_el |-> <<>>,
     itrace |-> 0, written |-> <<>>]

InitFM ==
    \/ fm = MeshStart("burgers_linear_mesh", BurgersElements, BurgersBfaces)
    \/ \E nx \in 1..MaxNelem, ny \in 1..MaxNelem :
       \E qx \in QuadRatios, qy \in QuadRatios :
       \E bcs \in [1..4 -> SideBcTypes] :
          fm = MeshStart("mixed_uniform_mesh", MixedElements(nx, ny, qx, qy, 0),
                         MixedBfaces(nx, ny, bcs))

NextFM ==
    \/ FmFindInteriorFaces
    \/ FmMixedBdyFaces
    \/ FmBurgersBdyFace
    \/ FmFESpaceBegin
    \/ FmTrace
    \/ FmFESpaceRanges
    \/ FmTraceIntegral
    \/ FmBoundaryIntegral
    \/ FmEndAssembly

\* ======================================================================
\* FESpace: the reference-evaluation cache ref_el_map
\* ======================================================================
\* the place of an enumerator in its enum
EnumOrd(e) ==
    CASE e \in {"HYPERCUBE", "GAUSS_LEGENDRE", "LAGRANGE"} -> 0
      [] e = "SIMPLEX" -> 1

\* operator<(const FETypeKey&, const FETypeKey&)
FETypeKeyLess(l, r) ==
    IF l.qtype # r.qtype THEN EnumOrd(l.qtype) < EnumOrd(r.qtype)
    ELSE IF l.btype # r.btype THEN EnumOrd(l.btype) < EnumOrd(r.btype)
    ELSE IF l.domain_type # r.domain_type
         THEN EnumOrd(l.domain_type) < EnumOrd(r.domain_type)
    ELSE IF l.geometry_order # r.geometry_order THEN l.geometry_order < r.geometry_order
    ELSE IF l.basis_order # r.basis_order THEN l.basis_order < r.basis_order
    ELSE FALSE

\* the key either constructor makes for an element transformation: the L2
\* constructor takes basis order, quadrature and basis type from its
\* arguments, the isoparametric one from the transformation
fe_key(r, geo_trans) ==
    [domain_type |-> geo_trans.domain_type,
     basis_order |-> IF r.space = "L2" THEN r.basis_order ELSE geo_trans.order,
     geometry_order |-> geo_trans.order,
     qtype |-> "GAUSS_LEGENDRE",
     btype |-> "LAGRANGE"]

\* ref_el_map.find(fe_key) != ref_el_map.end(): std::map holds a key
\* equivalent to fe_key, neither being less than the other
ref_el_map_never_finds(map, key) == FALSE

ref_el_map_find(map, key) ==
    \E en \in map : ~FETypeKeyLess(en.key, key) /\ ~FETypeKeyLess(key, en.key)

\* "check if an evaluation doesn't exist yet", then the FiniteElement with
\* pointers into ref_el_map[fe_key]; a record is known by the serial
\* number of its construction
AddFiniteElement(r, geo_trans, list) ==
    LET key == fe_key(r, geo_trans)
        found == ref_el_map_find(r.ref_el_map, key)
        map == IF found THEN r.ref_el_map
               ELSE {en \in r.ref_el_map :
                        FETypeKeyLess(en.key, key) \/ FETypeKeyLess(key, en.key)}
                    \cup {[key |-> key, ref |-> r.created + 1]}
        ref_el == CHOOSE en \in map :
                     ~FETypeKeyLess(en.key, key) /\ ~FETypeKeyLess(key, en.key)
    IN [r EXCEPT !.ref_el_map = map,
                 !.created = IF found THEN @ ELSE @ + 1,
                 ![list] = Append(@, [key |-> key, ref |-> ref_el.ref])]

restRC == <<lmvars, anomaly_log, reg, bc, sel, gc, fm, dm, gm, utvars>>

\* one pass of the loop over meshptr->el_transformations
RcElement ==
    /\ rc.phase = "elements"
    /\ Len(rc.elements) < Len(rc.el_transformations)
    /\ rc' = AddFiniteElement(rc, rc.el_transformations[Len(rc.elements) + 1], "elements")
    /\ UNCHANGED restRC

\* MPI builds: one pass of the loop over the communicated elements; other
\* builds go straight on to the traces
RcCommElement ==
    /\ rc.phase = "elements"
    /\ Len(rc.elements) = Len(rc.el_transformations)
    /\ rc' = IF rc.mpi /\ Len(rc.comm_elements) < Len(rc.communicated_elements)
             THEN AddFiniteElement(rc, rc.communicated_elements[Len(rc.comm_elements) + 1],
                                   "comm_elements")
             ELSE [rc EXCEPT !.phase = "constructed"]
    /\ UNCHANGED restRC

\* the FESpace is moved from: the map's nodes and the elements change
\* owner, no record is made or dropped
RcMove ==
    /\ rc.phase = "constructed"
    /\ rc.moves < 1
    /\ rc' = [rc EXCEPT !.moves = @ + 1]
    /\ UNCHANGED restRC

\* the arguments of either constructor and the element transformations of
\* the mesh, first or second order quads and triangles
InitRC ==
    \E space \in {"L2", "ISOPARAMETRIC_H1"}, basis_order \in 1..2, mpi \in BOOLEAN :
    \E n \in 0..MaxRcElems, nc \in 0..1 :
    \E trs \in [1..n -> [domain_type : {"HYPERCUBE", "SIMPLEX"}, order : 1..2]] :
    \E comm \in [1..nc -> [domain_type : {"HYPERCUBE", "SIMPLEX"}, order : 1..2]] :
        /\ space = "ISOPARAMETRIC_H1" => basis_order = 1
        /\ ~mpi => nc = 0
        /\ rc = [phase |-> "elements", space |-> space, basis_order |-> basis_order,
                 mpi |-> mpi, el_transformations |-> trs, communicated_elements |-> comm,
                 ref_el_map |-> {}, created |-> 0, elements |-> <<>>,
                 comm_elements |-> <<>>, moves |-> 0]

NextRC ==
    \/ RcElement
    \/ RcCommElement
    \/ RcMove

\* ======================================================================
\* geo_dof_map, nodeset_dof_map, extract_geospan and update_mesh
\* ======================================================================
\* the node lists of the traces of a uniform 2 x 2 quad mesh (nodes 0..8,
\* row by row): four interior traces, then the boundary traces
GmTraceNodes ==
    << {1, 4}, {4, 7}, {3, 4}, {4, 5},
       {0, 1}, {1, 2}, {6, 7}, {7, 8}, {0, 3}, {3, 6}, {2, 5}, {5, 8} >>

\* the mesh nodes, and the nodes that lie on a boundary trace
GmNodes == UNION Range(GmTraceNodes)
GmBoundaryNodes == UNION {GmTraceNodes[t] : t \in 5..Len(GmTraceNodes)}

\* mesh.nodes as generated, both coordinates of every node
GmCoord == [n \in GmNodes |-> <<n % 3, n \div 3>>]

\* the value inv_selected_nodes holds for a node that is not selected
NotSelectedZero(selected_nodes) == 0

NotSelected(selected_nodes) == Len(selected_nodes)

\* the constructor of either map: the nodes of the selected traces
\* (nodeset_dof_map: the ones off the boundary), sorted and unique, and
\* the inverse array over all mesh nodes
geo_dof_map(kind, selected_traces) ==
    LET nodes == UNION {GmTraceNodes[selected_traces[j]] : j \in 1..Len(selected_traces)}
        selected_nodes == SortedSeq(IF kind = "nodeset_dof_map"
                                    THEN nodes \ GmBoundaryNodes ELSE nodes)
    IN [selected_traces |-> selected_traces,
        selected_nodes |-> selected_nodes,
        inv_selected_nodes |->
            [inode \in GmNodes |->
                IF \E i \in 1..Len(selected_nodes) : selected_nodes[i] = inode
                THEN (CHOOSE i \in 1..Len(selected_nodes) : selected_nodes[i] = inode) - 1
                ELSE NotSelected(selected_nodes)]]

\* extract_geospan(mesh, data): data[idof, iv] = mesh.nodes[selected_nodes[idof]][iv]
extract_geospan(map, nodes) ==
    [idof \in 1..Len(map.selected_nodes) |-> nodes[map.selected_nodes[idof]]]

\* update_mesh(data, mesh): mesh.nodes[selected_nodes[idof]][iv] = data[idof, iv]
update_mesh_all(map, data, nodes) ==
    [n \in DOMAIN nodes |->
        IF map.inv_selected_nodes[n] < Len(map.selected_nodes)
        THEN data[map.inv_selected_nodes[n] + 1] ELSE <<0, 0>>]

update_mesh(map, data, nodes) ==
    [n \in DOMAIN nodes |->
        IF map.inv_selected_nodes[n] # Len(map.selected_nodes)
        THEN data[map.inv_selected_nodes[n] + 1] ELSE nodes[n]]

restGM == <<lmvars, anomaly_log, reg, bc, sel, gc, fm, rc, dm, utvars>>

\* geo_dof_map geo_map{selected_traces, fespace}, or a nodeset_dof_map
GmConstruct ==
    /\ gm.phase = "start"
    /\ gm' = [gm EXCEPT !.phase = "mapped",
                        !.map = geo_dof_map(gm.kind, gm.selected_traces)]
    /\ UNCHANGED restGM

\* extract_geospan(mesh, data) on a span laid out over the map
GmExtract ==
    /\ gm.phase = "mapped"
    /\ gm' = [gm EXCEPT !.phase = "extracted",
                        !.data = extract_geospan(gm.map, gm.nodes)]
    /\ UNCHANGED restGM

\* the caller changes one entry of the span: data[idof, iv] = value
GmModify(idof, iv, value) ==
    /\ gm.phase = "extracted"
    /\ ~gm.modified
    /\ idof \in 1..Len(gm.data)
    /\ gm' = [gm EXCEPT !.modified = TRUE, !.data[idof][iv] = value]
    /\ UNCHANGED restGM

\* update_mesh(data, mesh)
GmUpdateMesh ==
    /\ gm.phase = "extracted"
    /\ gm' = [gm EXCEPT !.phase = "updated",
                        !.nodes = update_mesh(gm.map, gm.data, gm.nodes)]
    /\ UNCHANGED restGM

\* the kind of map and the traces it is given, in any order
InitGM ==
    \E kind \in {"geo_dof_map", "nodeset_dof_map"} :
    \E n \in 0..MaxSelTraces :
    \E selected_traces \in [1..n -> 1..Len(GmTraceNodes)] :
        gm = [phase |-> "start", kind |-> kind, selected_traces |-> selected_traces,
              map |-> <<>>, nodes |-> GmCoord, data |-> <<>>, modified |-> FALSE]

NextGM ==
    \/ GmConstruct
    \/ GmExtract
    \/ \E idof \in 1..Cardinality(GmNodes), iv \in 1..2, value \in {5, 7} :
          GmModify(idof, iv, value)
    \/ GmUpdateMesh

\* ======================================================================
\* dg_dof_map, fe_layout_right, extract_elspan and scatter_elspan
\* ======================================================================
\* dg_dof_map{elements}: the offsets, one more than there are elements;
\* offsets[i + 1] is the code's offsets[i]
dg_dof_map_uniform(nbasis) ==
    [i \in 1..(Len(nbasis) + 1) |-> (i - 1) * nbasis[1]]

RECURSIVE dg_dof_map(_)
dg_dof_map(nbasis) ==
    IF nbasis = <<>> THEN <<0>>
    ELSE LET offsets == dg_dof_map(SubSeq(nbasis, 1, Len(nbasis) - 1))
         IN Append(offsets, offsets[Len(offsets)] + nbasis[Len(nbasis)])

\* fe_layout_right: the place of (iel, idof, iv) in the data, dofs left
\* of the nv vector components
fe_layout_right(d, iel, idof, iv) == (d.offsets[iel + 1] + idof) * d.nv + iv

\* extract_elspan(iel, fedata, eldata)
extract_elspan(d, iel) ==
    [ix \in (0..(d.nbasis[iel + 1] - 1)) \X (0..(d.nv - 1)) |->
        d.data[fe_layout_right(d, iel, ix[1], ix[2])]]

\* scatter_elspan(iel, alpha, eldata, beta, fedata)
scatter_elspan_overwrite(d, iel, a, b) ==
    [i \in DOMAIN d.data |->
        IF \E ix \in DOMAIN d.local : fe_layout_right(d, iel, ix[1], ix[2]) = i
        THEN a * d.local[CHOOSE ix \in DOMAIN d.local :
                             fe_layout_right(d, iel, ix[1], ix[2]) = i]
        ELSE d.data[i]]

scatter_elspan(d, iel, a, b) ==
    [i \in DOMAIN d.data |->
        IF \E ix \in DOMAIN d.local : fe_layout_right(d, iel, ix[1], ix[2]) = i
        THEN b * d.data[i]
             + a * d.local[CHOOSE ix \in DOMAIN d.local :
                               fe_layout_right(d, iel, ix[1], ix[2]) = i]
        ELSE d.data[i]]

restDM == <<lmvars, anomaly_log, reg, bc, sel, gc, fm, rc, gm, utvars>>

\* dg_dof_map offsets{elements}, and data of calculate_size_requirement(nv)
\* values filled with std::iota
DmConstruct ==
    /\ dm.phase = "start"
    /\ LET offsets == dg_dof_map(dm.nbasis)
       IN dm' = [dm EXCEPT !.phase = "mapped", !.offsets = offsets,
                           !.data = [i \in 0..(offsets[Len(offsets)] * dm.nv - 1) |-> i]]
    /\ UNCHANGED restDM

\* extract_elspan(iel, fespan, elspan) into an element layout of iel
DmExtract(iel) ==
    /\ dm.phase = "mapped"
    /\ iel \in 0..(Len(dm.nbasis) - 1)
    /\ dm' = [dm EXCEPT !.phase = "extracted", !.iel = iel,
                        !.local = extract_elspan(dm, iel)]
    /\ UNCHANGED restDM

\* scatter_elspan(iel, alpha, elspan, beta, fespan) into an element with
\* the layout of the elspan
DmScatter(iel, a, b) ==
    /\ dm.phase = "extracted"
    /\ iel \in 0..(Len(dm.nbasis) - 1)
    /\ dm.nbasis[iel + 1] = dm.nbasis[dm.iel + 1]
    /\ dm' = [dm EXCEPT !.phase = "scattered", !.iel = iel, !.alpha = a, !.beta = b,
                        !.before = dm.data,
                        !.data = scatter_elspan(dm, iel, a, b)]
    /\ UNCHANGED restDM

\* the number of basis functions of every element and of vector components
InitDM ==
    \E n \in 1..MaxDgElems, nv \in 1..2 :
    \E nbasis \in [1..n -> 1..MaxNbasis] :
        dm = [phase |-> "start", nbasis |-> nbasis, nv |-> nv, offsets |-> <<>>,
              data |-> <<>>, before |-> <<>>, local |-> <<>>, iel |-> 0,
              alpha |-> 0, beta |-> 0]

NextDM ==
    \/ DmConstruct
    \/ \E iel \in 0..(MaxDgElems - 1) : DmExtract(iel)
    \/ \E iel \in 0..(MaxDgElems - 1), a \in 0..2, b \in 0..2 : DmScatter(iel, a, b)

\* ======================================================================
\* compute_st_node_connectivity
\* ======================================================================
\* Coordinates are whole multiples of 5e-9, so the tolerance 1e-8 is 2.
StTol == 2

StBcTypes == {"DIRICHLET", "SPACETIME_PAST", "SPACETIME_FUTURE"}

\* a uniform quad mesh of nx by ny elements from (x0, 0) with spacing h,
\* nodes numbered with x fastest, bcs given as (left, bottom, right, top)
StMesh(nx, ny, h, x0, bcs) ==
    LET nnodex == nx + 1
        side(n, bctype, nodes(_)) ==
            [i \in 1..n |-> [bctype |-> bctype, nodes |-> nodes(i - 1)]]
        left(iy) == {iy * nnodex, (iy + 1) * nnodex}
        bottom(ix) == {ix, ix + 1}
        right(iy) == {iy * nnodex + nx, (iy + 1) * nnodex + nx}
        top(ix) == {ny * nnodex + ix, ny * nnodex + ix + 1}
    IN [nodes |-> [i \in 0..(nnodex * (ny + 1) - 1) |->
                      <<x0 + (i % nnodex) * h, (i \div nnodex) * h>>],
        bfaces |-> side(ny, bcs[1], left) \o side(nx, bcs[2], bottom)
                   \o side(ny, bcs[3], right) \o side(nx, bcs[4], top)]

\* the mesh of test_node_connectivity: 4 x 4 elements on the unit square
StTestMesh ==
    StMesh(4, 4, 50000000, 0,
           <<"DIRICHLET", "SPACETIME_PAST", "DIRICHLET", "SPACETIME_FUTURE">>)

\* one slab of elements, shifted by x0
StSlabs ==
    {StMesh(nx, 1, StDx, x0, <<"DIRICHLET", b, "DIRICHLET", t>>) :
        nx \in 1..MaxStNx, x0 \in {0, 2, 3}, b \in StBcTypes, t \in StBcTypes}

StAbs(x) == IF x < 0 THEN -x ELSE x

\* past_nodes_connected / current_nodes_connected: the nodes of the
\* boundary faces of the given bctype
nodes_connected(m, bctype) ==
    {inode \in DOMAIN m.nodes :
        \E f \in Range(m.bfaces) : f.bctype = bctype /\ inode \in f.nodes}

\* the inner loop over idim: every coordinate but the last is close enough
all_same_every_dim(pcurr, ppast) ==
    \A idim \in 1..Len(pcurr) : ~(StAbs(pcurr[idim] - ppast[idim]) > StTol)

all_same(pcurr, ppast) ==
    \A idim \in 1..(Len(pcurr) - 1) : ~(StAbs(pcurr[idim] - ppast[idim]) > StTol)

\* the search loops: the first node of past_nodes that is all_same
curr_to_past_nodes(mesh_past, mesh_current, past_nodes, current_connected) ==
    LET hits(inode_curr) ==
            {i \in 1..Len(past_nodes) :
                all_same(mesh_current.nodes[inode_curr], mesh_past.nodes[past_nodes[i]])}
        first(inode_curr) ==
            CHOOSE i \in hits(inode_curr) : \A j \in hits(inode_curr) : i <= j
    IN [inode_curr \in {i \in current_connected : hits(i) # {}} |->
            past_nodes[first(inode_curr)]]

restST == <<lmvars, anomaly_log, reg, bc, sel, fevars, pf, pn, cr, ex>>

\* the two loops over boundary faces and the list past_nodes
StMarkNodes ==
    /\ stc.phase = "start"
    /\ stc' = [stc EXCEPT !.phase = "marked",
                 !.past_nodes = SortedSeq(nodes_connected(stc.mesh_past, "SPACETIME_FUTURE")),
                 !.current_connected = nodes_connected(stc.mesh_current, "SPACETIME_PAST")]
    /\ UNCHANGED restST

\* the search for connected nodes, and the return
StConnect ==
    /\ stc.phase = "marked"
    /\ stc' = [stc EXCEPT !.phase = "returned",
                 !.map = curr_to_past_nodes(stc.mesh_past, stc.mesh_current,
                                            stc.past_nodes, stc.current_connected)]
    /\ UNCHANGED restST

InitST ==
    \E mesh_past \in StSlabs \cup {StTestMesh} :
    \E mesh_current \in IF mesh_past = StTestMesh THEN {StTestMesh} ELSE StSlabs :
        stc = [phase |-> "start", mesh_past |-> mesh_past, mesh_current |-> mesh_current,
               past_nodes |-> <<>>, current_connected |-> {}, map |-> <<>>]

NextST ==
    \/ StMarkNodes
    \/ StConnect

\* ======================================================================
\* encode_mpi_bcflag / decode_mpi_bcflag, cartesian_index_product and
\* QTypeProduct
\* ======================================================================
\* encode_mpi_bcflag: nrank is MPI_Comm_size when built with
\* ICEICLE_USE_MPI; without it the #else branch returns mpi_rank
encode_mpi_bcflag_always_rank(use_mpi, nrank, mpi_rank, imleft) == mpi_rank

encode_mpi_bcflag(use_mpi, nrank, mpi_rank, imleft) ==
    IF imleft THEN mpi_rank
    ELSE IF use_mpi THEN mpi_rank + nrank
    ELSE mpi_rank

\* decode_mpi_bcflag: <<rank, imleft>>
decode_mpi_bcflag(use_mpi, nrank, bcflag) ==
    IF use_mpi
    THEN IF bcflag < nrank THEN <<bcflag, TRUE>> ELSE <<bcflag - nrank, FALSE>>
    ELSE <<bcflag, TRUE>>

\* the lambda increment of cartesian_index_product: ijk[0]++, then the
\* carry loop over idim < ndim - 1 (position idim + 1 here)
RECURSIVE CipCarry(_, _, _)
CipCarry(sizes, ijk, idim) ==
    IF idim > Len(sizes) - 1 THEN ijk
    ELSE IF ijk[idim] = sizes[idim]
         THEN CipCarry(sizes, [ijk EXCEPT ![idim] = 0, ![idim + 1] = @ + 1], idim + 1)
         ELSE ijk

increment(sizes, ijk) == CipCarry(sizes, [ijk EXCEPT ![1] = @ + 1], 1)

\* std::ranges::fill(ijk, 0)
RECURSIVE CipFill(_)
CipFill(ndim) == IF ndim = 0 THEN <<>> ELSE Append(CipFill(ndim - 1), 0)

\* MATH::power_T / NUMTOOL::TMP::pow / std::pow on small integers
RECURSIVE power_T(_, _)
power_T(b, e) == IF e = 0 THEN 1 ELSE b * power_T(b, e - 1)

\* QTypeProduct::ijk_poin: entry [irep * cyclesize + ibasis * nfill + ifill][idim]
\* is set to ibasis; an entry no iteration reaches stays 0, and the last
\* iteration that reaches an entry decides it
ijk_poin_first_fastest(ndim, nbasis_1d) ==
    [i \in 0..(power_T(nbasis_1d, ndim) - 1) |->
        [d \in 1..ndim |-> (i \div power_T(nbasis_1d, d - 1)) % nbasis_1d]]

ijk_poin(ndim, nbasis_1d) ==
    [i \in 0..(power_T(nbasis_1d, ndim) - 1) |->
        [d \in 1..ndim |->
            LET idim == d - 1
                nrepeat == power_T(nbasis_1d, idim)
                cyclesize == power_T(nbasis_1d, ndim - idim)
                nfill == power_T(nbasis_1d, ndim - idim - 1)
                writes == {w \in (0..(nrepeat - 1)) \X (0..(nbasis_1d - 1)) :
                              \E ifill \in 0..(nfill - 1) :
                                  w[1] * cyclesize + w[2] * nfill + ifill = i}
                last == CHOOSE w \in writes : \A v \in writes :
                            v[1] < w[1] \/ (v[1] = w[1] /\ v[2] <= w[2])
            IN IF writes = {} THEN 0 ELSE last[2]]]

\* QTypeProduct::strides
strides(ndim, nbasis_1d) ==
    [d \in 1..ndim |-> power_T(nbasis_1d, ndim - (d - 1) - 1)]

\* QTypeProduct::convert_ijk
RECURSIVE convert_ijk_from(_, _, _, _)
convert_ijk_from(ndim, nbasis_1d, ijk, d) ==
    IF d > ndim THEN 0
    ELSE ijk[d] * power_T(nbasis_1d, ndim - (d - 1) - 1)
         + convert_ijk_from(ndim, nbasis_1d, ijk, d + 1)

convert_ijk(ndim, nbasis_1d, ijk) == convert_ijk_from(ndim, nbasis_1d, ijk, 1)

restPF == <<lmvars, anomaly_log, reg, bc, sel, fevars, stc, pn, cr, ex>>

\* a call of encode_mpi_bcflag for a neighbour rank
PfEncode(mpi_rank, imleft) ==
    /\ pf.phase = "start"
    /\ mpi_rank \in 0..(pf.nrank - 1)
    /\ pf' = [pf EXCEPT !.phase = "called", !.fn = "encode_mpi_bcflag",
                        !.arg = <<mpi_rank, imleft>>, !.ijk = <<>>,
                        !.value = encode_mpi_bcflag(pf.use_mpi, pf.nrank, mpi_rank, imleft)]
    /\ UNCHANGED restPF

\* decode_mpi_bcflag on the flag just encoded
PfDecode ==
    /\ pf.phase = "called"
    /\ pf.fn = "encode_mpi_bcflag"
    /\ pf' = [pf EXCEPT !.fn = "decode_mpi_bcflag",
                        !.value = <<pf.value, decode_mpi_bcflag(pf.use_mpi, pf.nrank, pf.value)>>]
    /\ UNCHANGED restPF

\* a call of cartesian_index_product: ijk filled with 0 and pushed
PfCartesian(sizes) ==
    /\ pf.phase = "start"
    /\ pf' = [pf EXCEPT !.phase = "loop", !.fn = "cartesian_index_product",
                        !.arg = sizes, !.ijk = CipFill(Len(sizes)),
                        !.value = <<CipFill(Len(sizes))>>]
    /\ UNCHANGED restPF

\* while(increment(ijk)) ijk_poin.push_back(ijk), one turn; increment is
\* false, and ijk_poin returned, when the last index reaches its extent
PfCartesianIncrement ==
    /\ pf.phase = "loop"
    /\ LET next == increment(pf.arg, pf.ijk)
       IN pf' = IF next[Len(pf.arg)] = pf.arg[Len(pf.arg)]
                THEN [pf EXCEPT !.phase = "called", !.ijk = next]
                ELSE [pf EXCEPT !.ijk = next, !.value = Append(@, next)]
    /\ UNCHANGED restPF

\* the tables of QTypeProduct<T, ndim, nbasis_1d>, and convert_ijk of
\* every entry of ijk_poin
PfQTypeProduct(ndim, nbasis_1d) ==
    /\ pf.phase = "start"
    /\ LET poin == ijk_poin(ndim, nbasis_1d)
       IN pf' = [pf EXCEPT !.phase = "called", !.fn = "QTypeProduct",
                    !.arg = <<ndim, nbasis_1d>>, !.ijk = <<>>,
                    !.value = [ijk_poin |-> poin,
                               strides |-> strides(ndim, nbasis_1d),
                               convert |-> [i \in DOMAIN poin |->
                                              convert_ijk(ndim, nbasis_1d, poin[i])]]]
    /\ UNCHANGED restPF

\* the build, and the number of ranks it runs on
InitPF ==
    \E use_mpi \in BOOLEAN :
    \E nrank \in IF use_mpi THEN 1..MaxRanks ELSE {1} :
        pf = [phase |-> "start", use_mpi |-> use_mpi, nrank |-> nrank,
              fn |-> "", arg |-> <<>>, ijk |-> <<>>, value |-> <<>>]

NextPF ==
    \/ \E mpi_rank \in 0..(MaxRanks - 1), imleft \in BOOLEAN : PfEncode(mpi_rank, imleft)
    \/ PfDecode
    \/ \E ndim \in 1..MaxNdim : \E sizes \in [1..ndim -> 1..MaxSize1d] : PfCartesian(sizes)
    \/ PfCartesianIncrement
    \/ \E ndim \in 1..MaxNdim, nbasis_1d \in 1..MaxSize1d : PfQTypeProduct(ndim, nbasis_1d)

\* ======================================================================
\* perturb_nodes
\* ======================================================================
\* the perturbation functions a caller may pass: (old node) -> new node
PerturbFuncs == {"shift", "swap"}

perturb_func(f, old_node) ==
    IF f = "shift" THEN <<old_node[1] + 1, old_node[2]>>
    ELSE <<old_node[2], old_node[1] + 2>>

restPN == <<lmvars, anomaly_log, reg, bc, sel, fevars, stc, pf, cr, ex>>

\* one turn of the loop over inode: the condition is true || !fixed_nodes[inode]
PnPerturbNode ==
    /\ pn.phase = "loop"
    /\ pn.inode < Len(pn.nodes)
    /\ pn' = [pn EXCEPT !.inode = @ + 1,
                !.nodes = IF TRUE \/ ~pn.fixed_nodes[pn.inode + 1]
                          THEN [@ EXCEPT ![pn.inode + 1] = perturb_func(pn.func, @)]
                          ELSE @]
    /\ UNCHANGED restPN

\* the loop ends
PnReturn ==
    /\ pn.phase = "loop"
    /\ pn.inode = Len(pn.nodes)
    /\ pn' = [pn EXCEPT !.phase = "returned"]
    /\ UNCHANGED restPN

\* a mesh of nodes in the plane, a flag for every node, and a function
InitPN ==
    \E n \in 1..MaxPnNodes, f \in PerturbFuncs :
    \E nodes \in [1..n -> {0, 1} \X {0, 1}], fixed_nodes \in [1..n -> BOOLEAN] :
        pn = [phase |-> "loop", inode |-> 0, func |-> f, nodes |-> nodes,
              before |-> nodes, fixed_nodes |-> fixed_nodes]

NextPN ==
    \/ PnPerturbNode
    \/ PnReturn

\* ======================================================================
\* util::crs: two objects and the heap
\* ======================================================================
\* A pointer is the number of a heap block, 0 for nullptr. A block is
\* [live, mem]; -1 stands for a value new[] has not initialised.
CrObjects == {"a", "b"}

\* the ragged arrays a crs is constructed from
CrRagged == {<<>>, <<<<1>>>>, <<<<1, 2>>, <<>>>>, <<<<3>>, <<4>>>>}

RECURSIVE CrFlatten(_)
CrFlatten(ragged) ==
    IF ragged = <<>> THEN <<>> ELSE ragged[1] \o CrFlatten(Tail(ragged))

\* the row offsets: _cols[0] = 0, _cols[irow + 1] = _cols[irow] + size of row irow
RECURSIVE CrCols(_)
CrCols(ragged) ==
    IF ragged = <<>> THEN <<0>>
    ELSE LET head == CrCols(SubSeq(ragged, 1, Len(ragged) - 1))
         IN Append(head, head[Len(head)] + Len(ragged[Len(ragged)]))

\* new T[n]
CrNew(heap, n) == Append(heap, [live |-> TRUE, mem |-> [i \in 1..n |-> -1]])

\* crs(std::vector<std::vector<T>>&): <<the object, the heap>>
crs_ragged(heap, ragged) ==
    LET h1 == CrNew(heap, Len(ragged) + 1)
        cols == Len(h1)
        h2 == CrNew([h1 EXCEPT ![cols].mem = CrCols(ragged)], Len(CrFlatten(ragged)))
        data == Len(h2)
    IN <<[made |-> TRUE, nnz |-> Len(CrFlatten(ragged)), nrow |-> Len(ragged),
          data |-> data, cols |-> cols],
         [h2 EXCEPT ![data].mem = CrFlatten(ragged)]>>

\* if(p != nullptr) delete[] p: <<the heap, what went wrong>>
CrDelete(heap, p) ==
    IF p = 0 THEN <<heap, {}>>
    ELSE IF heap[p].live THEN <<[heap EXCEPT ![p].live = FALSE], {}>>
    ELSE <<heap, {"delete of freed storage"}>>

\* std::copy_n(src, n, dst): <<the heap, what went wrong>>. A write
\* through a dangling pointer may or may not land (lands says which).
CrCopyN(heap, src, n, dst, lands) ==
    IF n = 0 THEN <<heap, {}>>
    ELSE LET bad == (IF src = 0 THEN {"read through nullptr"}
                     ELSE IF ~heap[src].live THEN {"read of freed storage"} ELSE {})
                    \cup
                    (IF dst = 0 THEN {"write through nullptr"}
                     ELSE IF ~heap[dst].live THEN {"write to freed storage"} ELSE {})
             vals == IF src = 0 THEN [i \in 1..n |-> -1] ELSE SubSeq(heap[src].mem, 1, n)
         IN IF dst = 0 THEN <<heap, bad>>
            ELSE IF heap[dst].live \/ lands
                 THEN <<[heap EXCEPT ![dst].mem = vals], bad>>
                 ELSE <<heap, bad>>

\* crs::operator=(const crs&): <<the object assigned to, the heap, what
\* went wrong>>
copy_assign(heap, self, other, lands) ==
    LET d1 == CrDelete(heap, self.data)
        d2 == CrDelete(d1[1], self.cols)
        c1 == CrCopyN(d2[1], other.data, other.nnz, self.data, lands)
        c2 == CrCopyN(c1[1], other.cols, other.nrow + 1, self.cols, lands)
    IN <<[self EXCEPT !.nnz = other.nnz, !.nrow = other.nrow],
         c2[1], d1[2] \cup d2[2] \cup c1[2] \cup c2[2]>>

restCR == <<lmvars, anomaly_log, reg, bc, sel, fevars, stc, pf, pn, ex>>

\* crs x{ragged}
CrConstruct(x, ragged) ==
    /\ cr.phase = "run"
    /\ ~cr.obj[x].made
    /\ LET r == crs_ragged(cr.heap, ragged)
       IN cr' = [cr EXCEPT !.obj[x] = r[1], !.heap = r[2], !.last = <<"construct", x>>]
    /\ UNCHANGED restCR

\* crs x{}: the pointers are nullptr, _nnz and _nrow are not initialised
CrDefault(x, nnz, nrow) ==
    /\ cr.phase = "run"
    /\ ~cr.obj[x].made
    /\ cr' = [cr EXCEPT !.obj[x] = [made |-> TRUE, nnz |-> nnz, nrow |-> nrow,
                                    data |-> 0, cols |-> 0],
                        !.last = <<"construct", x>>]
    /\ UNCHANGED restCR

\* x = y, once, from a y constructed from data
CrCopyAssign(x, y, lands) ==
    /\ cr.phase = "run"
    /\ cr.obj[x].made /\ cr.obj[y].made
    /\ cr.obj[y].data # 0
    /\ LET r == copy_assign(cr.heap, cr.obj[x], cr.obj[y], lands)
       IN cr' = [cr EXCEPT !.phase = "assigned", !.obj[x] = r[1], !.heap = r[2],
                           !.bad = @ \cup r[3], !.last = <<"assign", x, y>>,
                           !.before = [obj |-> cr.obj, heap |-> cr.heap]]
    /\ UNCHANGED restCR

\* ~crs() of x at the end of its scope
CrDestroy(x) ==
    /\ cr.phase = "assigned"
    /\ cr.obj[x].made
    /\ LET d1 == CrDelete(cr.heap, cr.obj[x].data)
           d2 == CrDelete(d1[1], cr.obj[x].cols)
       IN cr' = [cr EXCEPT !.obj[x].made = FALSE, !.heap = d2[1],
                           !.bad = @ \cup d1[2] \cup d2[2], !.last = <<"destroy", x>>]
    /\ UNCHANGED restCR

InitCR ==
    cr = [phase |-> "run",
          obj |-> [x \in CrObjects |-> [made |-> FALSE, nnz |-> 0, nrow |-> 0,
                                        data |-> 0, cols |-> 0]],
          heap |-> <<>>, bad |-> {}, last |-> <<"none">>,
          before |-> [obj |-> <<>>, heap |-> <<>>]]

NextCR ==
    \/ \E x \in CrObjects, ragged \in CrRagged : CrConstruct(x, ragged)
    \/ \E x \in CrObjects, nnz \in {0, 1}, nrow \in {0, 1} : CrDefault(x, nnz, nrow)
    \/ \E x \in CrObjects, y \in CrObjects, lands \in BOOLEAN : CrCopyAssign(x, y, lands)
    \/ \E x \in CrObjects : CrDestroy(x)

\* ======================================================================
\* lua_solve, the explicit solvers: the timestep and the termination
\* criterion are read from the solver table, then the solver is built from
\* them. A std::optional is <<>> when empty and <<kind, value>> otherwise;
\* a key of the solver table is <<>> when absent and <<value>> when given.
\* ======================================================================
ExplicitSolvers == {"explicit_euler", "rk3-ssp", "rk3-tvd"}

ExParam == {<<>>} \cup {<<v>> : v \in 1..MaxExVal}

ExMsgDt == "Cannot set fixed timestep criterion: other timestep criterion already set"
ExMsgCfl == "Cannot set cfl timestep criterion: other timestep criterion already set"
ExMsgNoTimestep == "No timestep criterion set"
ExMsgTfinal == "Cannot set tfinal termination criterion: other termination criterion already set"
ExMsgNtime == "Cannot set ntime termination criterion: other termination criterion already set"
ExMsgNoStop == "No termination criterion set"

\* if(sol::optional{solver_params[key]}){
\*     if(criterion.has_value()) log_anomaly(msg);
\*     criterion = Kind{solver_params[key]};
\* }
\* gives the criterion afterwards and the anomalies logged
set_criterion(criterion, param, kind, msg) ==
    IF param # <<>>
    THEN << <<kind, param[1]>>, IF criterion # <<>> THEN <<msg>> ELSE <<>> >>
    ELSE <<criterion, <<>> >>

\* if(!criterion.has_value()) log_anomaly(msg)
check_criterion(criterion, msg) ==
    IF criterion = <<>> THEN <<msg>> ELSE <<>>

restEX == <<lmvars, reg, bc, sel, fevars, stc, pf, pn, cr>>

\* if(sol::optional<T>{solver_params["dt"]}) ...
ExSetDt ==
    /\ ex.phase = "dt"
    /\ LET out == set_criterion(ex.timestep, ex.dt, "FixedTimestep", ExMsgDt)
       IN /\ ex' = [ex EXCEPT !.timestep = out[1], !.phase = "cfl"]
          /\ anomaly_log' = anomaly_log \o out[2]
    /\ UNCHANGED restEX

\* if(sol::optional<T>{solver_params["cfl"]}) ...
ExSetCfl ==
    /\ ex.phase = "cfl"
    /\ LET out == set_criterion(ex.timestep, ex.cfl, "CFLTimestep", ExMsgCfl)
       IN /\ ex' = [ex EXCEPT !.timestep = out[1], !.phase = "timestep_check"]
          /\ anomaly_log' = anomaly_log \o out[2]
    /\ UNCHANGED restEX

\* if(!timestep.has_value()) ...
ExCheckTimestep ==
    /\ ex.phase = "timestep_check"
    /\ ex' = [ex EXCEPT !.phase = "tfinal"]
    /\ anomaly_log' = anomaly_log \o check_criterion(ex.timestep, ExMsgNoTimestep)
    /\ UNCHANGED restEX

\* if(sol::optional<T>{solver_params["tfinal"]}) ...
ExSetTfinal ==
    /\ ex.phase = "tfinal"
    /\ LET out == set_criterion(ex.stop_condition, ex.tfinal, "TfinalTermination", ExMsgTfinal)
       IN /\ ex' = [ex EXCEPT !.stop_condition = out[1], !.phase = "ntime"]
          /\ anomaly_log' = anomaly_log \o out[2]
    /\ UNCHANGED restEX

\* if(sol::optional<IDX>{solver_params["ntime"]}) ...
ExSetNtime ==
    /\ ex.phase = "ntime"
    /\ LET out == set_criterion(ex.stop_condition, ex.ntime, "TimestepTermination", ExMsgNtime)
       IN /\ ex' = [ex EXCEPT !.stop_condition = out[1], !.phase = "stop_check"]
          /\ anomaly_log' = anomaly_log \o out[2]
    /\ UNCHANGED restEX

\* if(!stop_condition.has_value()) ...
ExCheckStop ==
    /\ ex.phase = "stop_check"
    /\ ex' = [ex EXCEPT !.phase = "dispatch"]
    /\ anomaly_log' = anomaly_log \o check_criterion(ex.stop_condition, ExMsgNoStop)
    /\ UNCHANGED restEX

\* if(timestep.has_value() && stop_condition.has_value()): the solver named
\* by solver_type is constructed from {fespace, disc, ts, sc} and solves;
\* otherwise no solver is built
ExDispatch ==
    /\ ex.phase = "dispatch"
    /\ ex' = [ex EXCEPT !.phase = "done",
                        !.solver = IF ex.timestep # <<>> /\ ex.stop_condition # <<>>
                                   THEN <<ex.solver_type, ex.timestep, ex.stop_condition>>
                                   ELSE <<>>]
    /\ UNCHANGED <<anomaly_log, restEX>>

\* lua_solve is entered with a solver table that names an explicit solver
InitEX ==
    \E ty \in ExplicitSolvers, dt \in ExParam, cfl \in ExParam,
       tfinal \in ExParam, ntime \in ExParam :
        ex = [phase |-> "dt", solver_type |-> ty,
              dt |-> dt, cfl |-> cfl, tfinal |-> tfinal, ntime |-> ntime,
              timestep |-> <<>>, stop_condition |-> <<>>, solver |-> <<>>]

NextEX ==
    \/ ExSetDt
    \/ ExSetCfl
    \/ ExCheckTimestep
    \/ ExSetTfinal
    \/ ExSetNtime
    \/ ExCheckStop
    \/ ExDispatch

\* ======================================================================
\* The specifications
\* ======================================================================
NoBC == bc = [phase |-> "off"]
NoSel == sel = [phase |-> "off"]
NoGC == gc = [phase |-> "off"]
NoFM == fm = [phase |-> "off"]
NoRC == rc = [phase |-> "off"]
NoDM == dm = [phase |-> "off"]
NoGM == gm = [phase |-> "off"]
NoFE == NoGC /\ NoFM /\ NoRC /\ NoDM /\ NoGM
NoST == stc = [phase |-> "off"]
NoPF == pf = [phase |-> "off"]
NoPN == pn = [phase |-> "off"]
NoCR == cr = [phase |-> "off"]
NoEX == ex = [phase |-> "off"]
NoUT == NoST /\ NoPF /\ NoPN /\ NoCR /\ NoEX
NoCore == NoSolver /\ anomaly_log = <<>> /\ NoReg /\ NoBC /\ NoSel /\ NoFE

Init ==
    /\ InitSolver
    /\ anomaly_log = <<>>
    /\ NoReg /\ NoBC /\ NoSel /\ NoFE /\ NoUT

Next ==
    \/ SolveBegin
    \/ KSPSolve
    \/ UpdateNoLinesearch
    \/ \E a \in AlphaVals : LinesearchTrial(a)
    \/ \E a \in AlphaVals : LinesearchUpdate(a)
    \/ Reassemble
    \/ ConvergenceTest

Spec == Init /\ [][Next]_vars

\* solve() runs to completion once entered
FairSpec == Spec /\ WF_vars(Next)

InitRegSpec ==
    /\ NoSolver
    /\ anomaly_log = <<>>
    /\ InitReg /\ NoBC /\ NoSel /\ NoFE /\ NoUT

SpecReg == InitRegSpec /\ [][NextReg]_vars

InitBCSpec ==
    /\ NoSolver
    /\ anomaly_log = <<>>
    /\ NoReg /\ InitBC /\ NoSel /\ NoFE /\ NoUT

SpecBC == InitBCSpec /\ [][NextBC]_vars

InitSelSpec ==
    /\ NoSolver
    /\ anomaly_log = <<>>
    /\ NoReg /\ NoBC /\ InitSel /\ NoFE /\ NoUT

SpecSel == InitSelSpec /\ [][NextSel]_vars

InitGCSpec ==
    /\ NoSolver
    /\ anomaly_log = <<>>
    /\ NoReg /\ NoBC /\ NoSel
    /\ InitGC /\ NoFM /\ NoRC /\ NoDM /\ NoGM
    /\ NoUT

SpecGC == InitGCSpec /\ [][NextGC]_vars

InitFMSpec ==
    /\ NoSolver
    /\ anomaly_log = <<>>
    /\ NoReg /\ NoBC /\ NoSel
    /\ NoGC /\ InitFM /\ NoRC /\ NoDM /\ NoGM
    /\ NoUT

SpecFM == InitFMSpec /\ [][NextFM]_vars

InitRCSpec ==
    /\ NoSolver
    /\ anomaly_log = <<>>
    /\ NoReg /\ NoBC /\ NoSel
    /\ NoGC /\ NoFM /\ InitRC /\ NoDM /\ NoGM
    /\ NoUT

SpecRC == InitRCSpec /\ [][NextRC]_vars

InitGMSpec ==
    /\ NoSolver
    /\ anomaly_log = <<>>
    /\ NoReg /\ NoBC /\ NoSel
    /\ NoGC /\ NoFM /\ NoRC /\ NoDM /\ InitGM
    /\ NoUT

SpecGM == InitGMSpec /\ [][NextGM]_vars

InitDMSpec ==
    /\ NoSolver
    /\ anomaly_log = <<>>
    /\ NoReg /\ NoBC /\ NoSel
    /\ NoGC /\ NoFM /\ NoRC /\ InitDM /\ NoGM
    /\ NoUT

SpecDM == InitDMSpec /\ [][NextDM]_vars

InitSTSpec == NoCore /\ InitST /\ NoPF /\ NoPN /\ NoCR /\ NoEX

SpecST == InitSTSpec /\ [][NextST]_vars

InitPFSpec == NoCore /\ NoST /\ InitPF /\ NoPN /\ NoCR /\ NoEX

SpecPF == InitPFSpec /\ [][NextPF]_vars

InitPNSpec == NoCore /\ NoST /\ NoPF /\ InitPN /\ NoCR /\ NoEX

SpecPN == InitPNSpec /\ [][NextPN]_vars

InitCRSpec == NoCore /\ NoST /\ NoPF /\ NoPN /\ InitCR /\ NoEX

SpecCR == InitCRSpec /\ [][NextCR]_vars

InitEXSpec == NoCore /\ NoST /\ NoPF /\ NoPN /\ NoCR /\ InitEX

SpecEX == InitEXSpec /\ [][NextEX]_vars

\* ================================================= claims on CorriganLM::solve

\* the positions of solve() that lie inside the body of the outer loop
InLoopBody == pc \in {"ksp", "update", "linesearch", "assemble", "conv"}

\* C1: every outer iteration tests a residual that was recomputed at the
\* stepped (u, x_g), and on finite norms the loop is left at that test
\* exactly when ||R_k|| <= tau_abs + tau_rel * ||R_0|| or the next k reaches
\* kmax; otherwise the next iteration starts.
C1_StopRule ==
    [][ pc = "conv" =>
          /\ res_at = <<u, coord>>
          /\ (IsFinite(res_norm) /\ IsFinite(r0)) =>
                ( (pc' = "returned")
                  <=> (res_norm[2] <= tau_abs + tau_rel * r0[2] \/ k + 1 >= kmax) )
      ]_vars

\* C1 witness: an iteration stepped u and met the tolerance with the cap
\* not yet reached
C1_Witness ==
    /\ pc = "returned"
    /\ k = 0
    /\ k + 1 < kmax
    /\ u # 0
    /\ res_at = <<u, coord>>
    /\ IsFinite(res_norm) /\ IsFinite(r0)
    /\ res_norm[2] <= tau_abs + tau_rel * r0[2]

\* C2: with a line search configured, the iteration leaves u and x_g
\* changed by exactly -alpha * dz, the trial evaluations leaving nothing
\* behind.
C2_StepIsAlphaDz ==
    (pc = "assemble" /\ use_ls) =>
        /\ u = u_pre - alpha * du
        /\ coord = x_pre - alpha * dx

\* C3: once the step has been applied and the residual and Jacobian are
\* about to be recomputed, the mesh coordinates carry x_g.
C3_MeshUpdatedBeforeReassembly ==
    pc = "assemble" => mesh = coord

\* C4: solve() ends, the loop counter never exceeds kmax, and an iteration
\* is only ever running with k < kmax (none at all when kmax = 0).
C4_IterationCap ==
    /\ <>(pc = "returned")
    /\ [](k <= kmax)
    /\ [](InLoopBody => k < kmax)

\* C4 witness: the cap, not convergence, ended a solve of several iterations
C4_Witness ==
    /\ pc = "returned"
    /\ kmax >= 2
    /\ k = kmax
    /\ ~done_callback(res_norm)

\* C5: a non-finite residual norm is not acted on: once computed, solve()
\* is at the convergence test that follows it or has ended fatally.
C5_NonFiniteIsFatal ==
    IsFinite(res_norm) \/ pc \in {"conv", "fatal"}

\* C6: a solve that returns after its last Krylov solve failed has
\* surfaced a warning.
C6_KrylovFailureWarns ==
    (pc = "returned" /\ ksp_reason = "diverged") => Len(anomaly_log) > 0

\* ============================================ claims on the regulariser

\* C7: the matrix-free operator applies the diagonal of the explicitly
\* formed subproblem: its lambda * x term is LambdaExplicit times x, row by
\* row, the lambda_lag / detJ term of the geometry rows included.
C7_ShellMatchesExplicit ==
    (reg.phase = "on" /\ reg.formed /\ reg.multiplied) =>
        \A i \in DOMAIN reg.lambda_view :
            reg.lambdax[i] = reg.lambda_view[i] * reg.x[i]

\* ============================================ claims on boundary conditions

\* the boundary faces already integrated whose bctype is left to the flux
\* (the default branch) while the flux lacks apply_bc or its apply_bc does
\* not handle the bctype
BcUnimplemented ==
    {i \in 1..(bc.idx - 1) :
        LET t == bc.faces[i].bctype IN
           /\ t \notin {"DIRICHLET", "NEUMANN", "SPACETIME_PAST",
                        "SPACETIME_FUTURE", "EXTRAPOLATION"}
           /\ (~implements_bcs(bc.pflux) \/ t # "SLIP_WALL")}

\* C8: a face whose configured name is not a recognised one has been
\* reported as an error, and assembly has not been entered.
C8_UnknownNameReported ==
    (bc.phase # "off") =>
        \A i \in 1..Len(bc.faces) :
            (bc.faces[i].named /\ ToLower(bc.faces[i].name) \notin DocumentedNames) =>
                /\ Len(anomaly_log) > 0
                /\ bc.phase = "config"

\* C9: once a boundary trace with an unimplemented bctype has been
\* integrated, the anomaly log holds the event and the assembly does not
\* end as a normal one.
C9_UnimplementedLoggedAndFatal ==
    (bc.phase \in {"assembly", "assembled"} /\ BcUnimplemented # {}) =>
        /\ Len(anomaly_log) > 0
        /\ bc.phase # "assembled"

\* ============================================ claims on the trace selection

\* the threshold the configuration states, read off the configuration
C10_Theta ==
    CASE sel.cfg.kind = "function" -> sel.cfg.fn[sel.icycle]
      [] sel.cfg.kind = "value" -> sel.cfg.value
      [] OTHER -> DefaultThreshold

\* C10: with MDG configured, the traces handed to the geometry map are
\* exactly the interior traces whose interface conservation norm is at
\* least the configured threshold (0.1 when none is configured), each
\* once; a function threshold is the one at the current cycle number.
C10_SelectedIffAboveThreshold ==
    (sel.phase = "returned" /\ sel.mdg) =>
        /\ Range(sel.selected_traces) =
              {t \in 1..sel.n_traces : t <= sel.n_interior /\ sel.ic_norm[t] >= C10_Theta}
        /\ Len(sel.selected_traces) = Cardinality(Range(sel.selected_traces))

\* C10 witness: a function threshold; an interior trace exactly at the
\* threshold is selected, an interior trace below it and a boundary trace
\* above it are not
C10_Witness ==
    /\ sel.phase = "returned" /\ sel.mdg
    /\ sel.cfg.kind = "function"
    /\ sel.cfg.fn[0] # sel.cfg.fn[1]
    /\ \E t \in Range(sel.selected_traces) : sel.ic_norm[t] = C10_Theta
    /\ \E t \in 1..sel.n_interior : sel.ic_norm[t] < C10_Theta
    /\ \E t \in (sel.n_interior + 1)..sel.n_traces : sel.ic_norm[t] > C10_Theta

\* ================================== claims on the geometry constraints

\* C11: whenever MDG geometry selection is configured, every node of a
\* DIRICHLET boundary face carries a Fixed parameterization in the map
\* that is returned.
C11_DirichletNodesFixed ==
    (gc.phase = "returned" /\ gc.mdg) =>
        \A i \in 1..Len(gc.faces) :
            gc.faces[i].bctype = "DIRICHLET" =>
                \A n \in gc.faces[i].nodes : gc.param[n] = "Fixed"

\* ======================================= claims on mesh faces and traces

\* the faces of the interior range of the mesh under construction
InteriorFaces ==
    {i \in 1..Len(fm.faces) : fm.interiorFaceStart < i /\ i <= fm.interiorFaceEnd}

\* the interior faces between elements a and b
FacesBetween(a, b) ==
    {i \in InteriorFaces : {fm.faces[i].elemL, fm.faces[i].elemR} = {a, b}}

\* two elements have a face with the same vertex set
ShareFace(a, b) ==
    ElementFaces(fm.elements[a]) \cap ElementFaces(fm.elements[b]) # {}

\* find_interior_faces has just returned and the interior range is recorded
InteriorFacesFound == fm.phase = "boundary" /\ fm.ielem = 1 /\ Len(fm.faces) = fm.bdyFaceStart

MeshBuilt == fm.phase \in {"mesh", "traces", "assembly", "assembled"}

\* the FESpace on the mesh is complete
FESpaceBuilt == fm.phase \in {"assembly", "assembled"}

\* C13: on a constructed mesh the faces of [interiorFaceStart,
\* interiorFaceEnd) are INTERIOR, the faces of [bdyFaceStart, bdyFaceEnd)
\* are not, and an FESpace on the mesh takes over exactly these ranges for
\* its interior and boundary traces.
C13_FaceOrdering ==
    /\ MeshBuilt =>
          \A i \in 1..Len(fm.faces) :
             /\ (fm.interiorFaceStart < i /\ i <= fm.interiorFaceEnd)
                   => fm.faces[i].bctype = "INTERIOR"
             /\ (fm.bdyFaceStart < i /\ i <= fm.bdyFaceEnd)
                   => fm.faces[i].bctype # "INTERIOR"
    /\ FESpaceBuilt =>
          /\ fm.interior_trace_start = fm.interiorFaceStart
          /\ fm.interior_trace_end = fm.interiorFaceEnd
          /\ fm.bdy_trace_start = fm.bdyFaceStart
          /\ fm.bdy_trace_end = fm.bdyFaceEnd

\* C14: a trace built on a face that is neither INTERIOR nor PARALLEL_COM
\* has its left element as its right element.
C14_BoundaryTraceElREqualsElL ==
    \A p \in 1..(IF fm.phase = "off" THEN 0 ELSE Len(fm.traces)) :
        fm.faces[p].bctype \notin {"INTERIOR", "PARALLEL_COM"}
            => fm.traces[p].elR = fm.traces[p].elL

\* C14 witness: an FESpace with a Dirichlet trace, whose two sides are the
\* same element, next to an interior trace and a parallel trace of an MPI
\* build, whose two sides differ
C14_Witness ==
    /\ FESpaceBuilt
    /\ \E p \in 1..Len(fm.traces) :
          fm.faces[p].bctype = "DIRICHLET" /\ fm.traces[p].elR = fm.traces[p].elL
    /\ \E p \in 1..Len(fm.traces) :
          fm.faces[p].bctype = "INTERIOR" /\ fm.traces[p].elR # fm.traces[p].elL
    /\ \E p \in 1..Len(fm.traces) :
          fm.faces[p].bctype = "PARALLEL_COM" /\ fm.traces[p].elR # fm.traces[p].elL

\* C16: in residual assembly a trace writes into the blocks of its elL and
\* elR only; an interior trace has two different elements and so two
\* disjoint blocks, a boundary trace writes the block of elL alone.
C16_TraceWritesDisjointBlocks ==
    \A p \in 1..(IF fm.phase = "off" THEN 0 ELSE Len(fm.written)) :
        /\ fm.written[p] \subseteq {fm.traces[p].elL, fm.traces[p].elR}
        /\ (fm.interior_trace_start < p /\ p <= fm.interior_trace_end)
              => /\ fm.traces[p].elL # fm.traces[p].elR
                 /\ fm.written[p] = {fm.traces[p].elL, fm.traces[p].elR}
        /\ (fm.bdy_trace_start < p /\ p <= fm.bdy_trace_end)
              => fm.written[p] = {fm.traces[p].elL}

\* C16 witness: an assembled residual with interior and boundary traces
C16_Witness ==
    /\ fm.phase = "assembled"
    /\ fm.interior_trace_end - fm.interior_trace_start >= 2
    /\ fm.bdy_trace_end - fm.bdy_trace_start >= 2
    /\ Len(fm.written) = Len(fm.traces)

\* ============================== claims on the reference-evaluation cache

\* the FiniteElements of the FESpace, communicated ones included
RcAllElements ==
    IF rc.phase = "off" THEN {}
    ELSE Range(rc.elements) \cup Range(rc.comm_elements)

\* C15: the FiniteElements of one FESpace that have the same key refer to
\* one and the same reference-evaluation record; a record is made when
\* its key is first met, one per key, and the record a key stands for is
\* the one every earlier element of that key points to.
C15_OneRecordPerKey ==
    /\ \A a \in RcAllElements : \A b \in RcAllElements :
          a.key = b.key => a.ref = b.ref
    /\ \A a \in RcAllElements :
          \E en \in rc.ref_el_map : en.key = a.key /\ en.ref = a.ref
    /\ rc.phase # "off" =>
          /\ rc.created = Cardinality({a.key : a \in RcAllElements})
          /\ Cardinality(rc.ref_el_map) = rc.created

\* C15 witness: a moved FESpace with three elements of two keys, the key
\* met first being met again after the other
C15_Witness ==
    /\ rc.phase = "constructed" /\ rc.moves = 1
    /\ Len(rc.elements) = 3
    /\ rc.elements[1].key = rc.elements[3].key
    /\ rc.elements[1].key # rc.elements[2].key
    /\ rc.elements[1].ref = rc.elements[3].ref
    /\ rc.created = 2

\* ============================================ claims on the geometry map

\* the map has been constructed
GmMapped == gm.phase \in {"mapped", "extracted", "updated"}

\* C17: inv_selected_nodes[inode] is the position of inode in
\* selected_nodes when the node is selected, and selected_nodes.size()
\* for every mesh node that is not.
C17_InverseOfSelectedNodes ==
    GmMapped =>
        \A inode \in GmNodes :
            IF inode \in Range(gm.map.selected_nodes)
            THEN /\ gm.map.inv_selected_nodes[inode] \in 0..(Len(gm.map.selected_nodes) - 1)
                 /\ gm.map.selected_nodes[gm.map.inv_selected_nodes[inode] + 1] = inode
                 /\ gm.map.inv_selected_nodes[inode]
                       = inv_selected_nodes(Range(gm.map.selected_nodes), inode)
            ELSE gm.map.inv_selected_nodes[inode] = Len(gm.map.selected_nodes)

\* C17 witness: a map of either kind with selected and unselected nodes,
\* and a geo_dof_map of two traces with a common node
C17_Witness ==
    /\ GmMapped
    /\ gm.kind = "geo_dof_map"
    /\ Len(gm.map.selected_traces) = 2
    /\ Len(gm.map.selected_nodes) = 3
    /\ gm.map.selected_nodes[1] # 0

\* C20: after extract_geospan and update_mesh every selected node has the
\* coordinates the span holds for it, and every other node has the
\* coordinates it had.
C20_UpdateMeshFrame ==
    gm.phase = "updated" =>
        /\ \A idof \in 1..Len(gm.map.selected_nodes) :
              gm.nodes[gm.map.selected_nodes[idof]] = gm.data[idof]
        /\ \A n \in GmNodes \ Range(gm.map.selected_nodes) : gm.nodes[n] = GmCoord[n]

\* C20 witness: one coordinate of a selected node was changed in the span
\* before the mesh was updated
C20_Witness ==
    /\ gm.phase = "updated" /\ gm.modified
    /\ Len(gm.map.selected_nodes) >= 2
    /\ \E n \in Range(gm.map.selected_nodes) : gm.nodes[n] # GmCoord[n]
    /\ \E n \in Range(gm.map.selected_nodes) : gm.nodes[n] = GmCoord[n]

\* ================================================ claims on the dg layout

\* the dof map has been constructed
DmMapped == dm.phase \in {"mapped", "extracted", "scattered"}

\* the global dofs of element iel, global(iel, idof) = offset[iel] + idof
DmBlock(iel) ==
    {dm.offsets[iel + 1] + idof : idof \in 0..(dm.nbasis[iel + 1] - 1)}

\* the sum of the first n entries of nbasis
RECURSIVE DmSum(_)
DmSum(n) == IF n = 0 THEN 0 ELSE DmSum(n - 1) + dm.nbasis[n]

\* C18: offset[i+1] = offset[i] + nbasis(elem_i), so global(iel, 0) =
\* offset[iel] strictly increases in iel, the dof blocks of different
\* elements do not overlap, and the dof count is offset[nelem], the sum of
\* all nbasis.
C18_DgOffsets ==
    DmMapped =>
        /\ Len(dm.offsets) = Len(dm.nbasis) + 1
        /\ \A i \in 1..Len(dm.nbasis) : dm.offsets[i + 1] = dm.offsets[i] + dm.nbasis[i]
        /\ \A i \in 1..Len(dm.nbasis) : dm.offsets[i] < dm.offsets[i + 1]
        /\ \A i \in 0..(Len(dm.nbasis) - 1) : \A j \in 0..(Len(dm.nbasis) - 1) :
              i # j => DmBlock(i) \cap DmBlock(j) = {}
        /\ dm.offsets[Len(dm.nbasis) + 1] = DmSum(Len(dm.nbasis))
        /\ Cardinality(DOMAIN dm.data) = DmSum(Len(dm.nbasis)) * dm.nv

\* C18 witness: two elements with different numbers of basis functions
C18_Witness ==
    /\ DmMapped
    /\ Len(dm.nbasis) = 2
    /\ dm.nbasis[1] > dm.nbasis[2]
    /\ dm.offsets[3] = dm.nbasis[1] + dm.nbasis[2]

\* the places in the data of the entries of element iel
DmEntries(iel) ==
    {fe_layout_right(dm, iel, ix[1], ix[2]) :
        ix \in (0..(dm.nbasis[iel + 1] - 1)) \X (0..(dm.nv - 1))}

\* C19: scatter_elspan(iel, alpha, local, beta, global) leaves in each
\* entry of element iel beta times its old value plus alpha times the
\* matching local value, and leaves the entries of the other elements as
\* they were.
C19_ScatterFrame ==
    dm.phase = "scattered" =>
        /\ \A ix \in DOMAIN dm.local :
              dm.data[fe_layout_right(dm, dm.iel, ix[1], ix[2])]
                 = dm.beta * dm.before[fe_layout_right(dm, dm.iel, ix[1], ix[2])]
                   + dm.alpha * dm.local[ix]
        /\ \A jel \in 0..(Len(dm.nbasis) - 1) :
              jel # dm.iel => \A i \in DmEntries(jel) : dm.data[i] = dm.before[i]
        /\ DOMAIN dm.data = DOMAIN dm.before

\* C19 witness: the elspan of one element scattered into another with
\* alpha = 2 and beta = 1, two components, the first element untouched
C19_Witness ==
    /\ dm.phase = "scattered"
    /\ Len(dm.nbasis) = 2 /\ dm.nv = 2 /\ dm.nbasis[1] = 2
    /\ dm.iel = 1 /\ dm.alpha = 2 /\ dm.beta = 1
    /\ dm.data # dm.before
    /\ dm.data[0] = dm.before[0]

\* ============================== claims on compute_st_node_connectivity

\* the boundary nodes of bctype, found face by face
StNodesOn(m, bctype) ==
    UNION {f.nodes : f \in {g \in Range(m.bfaces) : g.bctype = bctype}}

\* the coordinates agree in every dimension except the last within 1e-8
StAgree(pcurr, ppast) ==
    \A idim \in 1..(Len(pcurr) - 1) :
        pcurr[idim] - ppast[idim] <= StTol /\ ppast[idim] - pcurr[idim] <= StTol

\* every entry of the returned map takes a SPACETIME_PAST node of the
\* current mesh to a SPACETIME_FUTURE node of the past mesh that agrees
StEntriesAgree ==
    \A i \in DOMAIN stc.map :
        /\ i \in StNodesOn(stc.mesh_current, "SPACETIME_PAST")
        /\ stc.map[i] \in StNodesOn(stc.mesh_past, "SPACETIME_FUTURE")
        /\ StAgree(stc.mesh_current.nodes[i], stc.mesh_past.nodes[stc.map[i]])

\* the map of the 4 x 4 unit square connected to itself
StTestMap ==
    (stc.mesh_past = StTestMesh /\ stc.mesh_current = StTestMesh)
        => stc.map = [i \in 0..4 |-> 20 + i]

\* C21 as stated: every current-mesh node on a SPACETIME_PAST boundary
\* face is mapped, to a past-mesh node on a SPACETIME_FUTURE boundary face
\* that agrees with it in all but the last dimension within 1e-8, and the
\* 4 x 4 unit square connected to itself gives {0->20, ..., 4->24}.
C21_EveryPastNodeMapped ==
    stc.phase = "returned" =>
        /\ StNodesOn(stc.mesh_current, "SPACETIME_PAST") \subseteq DOMAIN stc.map
        /\ StEntriesAgree
        /\ StTestMap

\* C21 amended: every entry of the map takes a current-mesh node on a
\* SPACETIME_PAST face to a past-mesh node on a SPACETIME_FUTURE face that
\* agrees with it in all but the last dimension within 1e-8; a current node
\* on a SPACETIME_PAST face has an entry exactly when the past mesh has such
\* a node; the 4 x 4 unit square connected to itself gives {0->20, ..., 4->24}.
C21_MapsNodesThatHaveAMatch ==
    stc.phase = "returned" =>
        /\ StEntriesAgree
        /\ \A i \in StNodesOn(stc.mesh_current, "SPACETIME_PAST") :
              i \in DOMAIN stc.map
                <=> \E j \in StNodesOn(stc.mesh_past, "SPACETIME_FUTURE") :
                       StAgree(stc.mesh_current.nodes[i], stc.mesh_past.nodes[j])
        /\ StTestMap

\* C21 witness: a returned map with an entry whose nodes differ in time,
\* and a SPACETIME_PAST node of the current mesh left without an entry
C21_Witness ==
    /\ stc.phase = "returned"
    /\ \E i \in DOMAIN stc.map :
          stc.mesh_current.nodes[i][2] # stc.mesh_past.nodes[stc.map[i]][2]
    /\ \E i \in StNodesOn(stc.mesh_current, "SPACETIME_PAST") : i \notin DOMAIN stc.map

\* ================================================ claims on get_bc_from_name

\* the bctype each recognised name denotes, by the "Lua name" comments of
\* the enum BOUNDARY_CONDITIONS and the names bc_name prints
BcNameDenotes(name) ==
    CASE name = "dirichlet" -> "DIRICHLET"
      [] name = "neumann" -> "NEUMANN"
      [] name = "extrapolation" -> "EXTRAPOLATION"
      [] name = "spacetime-future" -> "SPACETIME_FUTURE"
      [] name = "spacetime-past" -> "SPACETIME_PAST"
      [] name = "slip wall" -> "SLIP_WALL"
      [] name \in {"isothermal", "no-slip isothermal"} -> "NO_SLIP_ISOTHERMAL"
      [] name \in {"wall", "general wall"} -> "WALL_GENERAL"
      [] name \in {"riemann", "characteristic"} -> "RIEMANN"

\* C30: get_bc_from_name gives every recognised name, in any case, the
\* bctype the name denotes; "wall" and "general wall" give WALL_GENERAL.
C30_NameGivesItsBctype ==
    \A i \in 1..Len(bc.faces) :
        (bc.faces[i].named /\ ToLower(bc.faces[i].name) \in DocumentedNames)
            => bc.faces[i].bctype = BcNameDenotes(ToLower(bc.faces[i].name))

\* ======================================= claims on the index and flag utilities

\* C22: for every neighbour rank r below nranks and both values of imleft
\* the flag is r + (imleft ? 0 : nranks), decoding it gives (r, imleft)
\* back, and no two (rank, imleft) combinations share a flag.
C22_FlagRoundTrip ==
    (pf.phase = "called" /\ pf.fn = "decode_mpi_bcflag") =>
        /\ pf.value[1] = pf.arg[1] + (IF pf.arg[2] THEN 0 ELSE pf.nrank)
        /\ pf.value[2] = pf.arg
        /\ \A r \in 0..(pf.nrank - 1) : \A l \in BOOLEAN :
              encode_mpi_bcflag(pf.use_mpi, pf.nrank, r, l) = pf.value[1] => <<r, l>> = pf.arg

\* the product of the extents after position d
RECURSIVE PfStride(_, _)
PfStride(sizes, d) == IF d >= Len(sizes) THEN 1 ELSE sizes[d + 1] * PfStride(sizes, d + 1)

\* C24: cartesian_index_product(sizes) lists every multi-index of the
\* product exactly once with the last index varying fastest, as its
\* documentation shows for {3, 2, 2}.
C24_LastIndexFastest ==
    (pf.phase = "called" /\ pf.fn = "cartesian_index_product") =>
        /\ Len(pf.value) = PfStride(pf.arg, 0)
        /\ \A i \in 1..Len(pf.value) : \A d \in 1..Len(pf.arg) :
              pf.value[i][d] = ((i - 1) \div PfStride(pf.arg, d)) % pf.arg[d]

\* ijk comes before ijk2 in lexicographic order
PfLexLess(ijk, ijk2) ==
    \E d \in 1..Len(ijk) :
        /\ ijk[d] < ijk2[d]
        /\ \A e \in 1..(d - 1) : ijk[e] = ijk2[e]

\* the sum of ijk[d] * stride[d] over the positions from d on
RECURSIVE PfDot(_, _, _)
PfDot(ijk, stride, d) ==
    IF d > Len(ijk) THEN 0 ELSE ijk[d] * stride[d] + PfDot(ijk, stride, d + 1)

\* C23: ijk_poin is in lexicographic order, last dimension fastest; for
\* every linear index i the sum of ijk_poin[i][d] * stride[d] is i, with
\* stride[d] = nbasis_1d^(ndim - 1 - d); convert_ijk(ijk_poin[i]) = i.
C23_IjkPoinInvertsConvert ==
    (pf.phase = "called" /\ pf.fn = "QTypeProduct") =>
        LET ndim == pf.arg[1]
            nbasis_1d == pf.arg[2]
            v == pf.value
        IN /\ \A d \in 1..ndim : v.strides[d] * power_T(nbasis_1d, d - 1)
                                     = power_T(nbasis_1d, ndim - 1)
           /\ \A i \in DOMAIN v.ijk_poin :
                 /\ \A d \in 1..ndim : v.ijk_poin[i][d] \in 0..(nbasis_1d - 1)
                 /\ PfDot(v.ijk_poin[i], v.strides, 1) = i
                 /\ v.convert[i] = i
                 /\ (i > 0 => PfLexLess(v.ijk_poin[i - 1], v.ijk_poin[i]))
                 /\ (i > 0 /\ (i % nbasis_1d) # 0
                        => v.ijk_poin[i][ndim] = v.ijk_poin[i - 1][ndim] + 1)

\* C23 witness: three dimensions of three indices, the entry 7 = (0, 2, 1)
C23_Witness ==
    /\ pf.phase = "called" /\ pf.fn = "QTypeProduct"
    /\ pf.arg = <<3, 3>>
    /\ pf.value.ijk_poin[7] = <<0, 2, 1>>
    /\ pf.value.strides = <<9, 3, 1>>

\* ================================================ claims on perturb_nodes

\* C25: perturb_nodes leaves every node whose fixed_nodes entry is true
\* with the coordinates it had before the call.
C25_FixedNodesKeepCoordinates ==
    pn.phase = "returned" =>
        \A i \in 1..Len(pn.nodes) : pn.fixed_nodes[i] => pn.nodes[i] = pn.before[i]

\* ================================================ claims on util::crs

\* C26: after the copy assignment a = b of two crs objects, a owns live
\* storage of its own holding the row offsets and values of b, b and its
\* storage are as before, and nothing has read, written or deleted
\* storage that was already freed.
C26_CopyAssignOwnsACopy ==
    (cr.phase = "assigned" /\ cr.last[1] = "assign" /\ cr.last[2] # cr.last[3]) =>
        LET a == cr.obj[cr.last[2]]
            b == cr.obj[cr.last[3]]
        IN /\ cr.bad = {}
           /\ a.data # 0 /\ a.cols # 0
           /\ a.data # b.data /\ a.cols # b.cols
           /\ cr.heap[a.data].live /\ cr.heap[a.cols].live
           /\ a.nnz = b.nnz /\ a.nrow = b.nrow
           /\ cr.heap[a.data].mem = cr.heap[b.data].mem
           /\ cr.heap[a.cols].mem = cr.heap[b.cols].mem
           /\ b = cr.before.obj[cr.last[3]]
           /\ cr.heap[b.data] = cr.before.heap[b.data]
           /\ cr.heap[b.cols] = cr.before.heap[b.cols]

\* ================================================ claims on fac_surr_el

\* how often itrace is in the row of element e
FacSurrElCount(e, itrace) ==
    Cardinality({i \in 1..Len(fm.fac_surr_el[e]) : fm.fac_surr_el[e][i] = itrace})

\* C27: in fac_surr_el every trace index is exactly once in the row of
\* each local element next to the trace: once in elL's row for a boundary
\* trace, once in elL's and once in elR's row for an interior trace.
C27_TraceOncePerAdjacentElement ==
    FESpaceBuilt =>
        \A n \in 1..Len(fm.traces) :
            \A e \in {fm.traces[n].elL, fm.traces[n].elR} \ {CommElement} :
                FacSurrElCount(e, n - 1) = 1

\* C28: the value solve() returns is the number of passes of the loop body
\* it made, whether the convergence test or kmax ended the loop
C28_ReturnCountsIterations ==
    pc = "returned" => k = niter

\* C28, the exit through `break`: the pass that converged is not counted
C28_BreakReturnsOneLess ==
    (pc = "returned" /\ k < kmax) => k + 1 = niter

\* C28, the exit through the loop guard: every pass is counted
C28_CapReturnsAll ==
    (pc = "returned" /\ k = kmax) => k = niter

\* ================================================= claims on lua_solve

\* the anomalies logged so far
ExLogged == {anomaly_log[i] : i \in 1..Len(anomaly_log)}

\* the positions of lua_solve after the timestep criterion has been read
ExTimestepRead == {"timestep_check", "tfinal", "ntime", "stop_check", "dispatch", "done"}

\* the positions of lua_solve after the termination criterion has been read
ExStopRead == {"stop_check", "dispatch", "done"}

\* C29: with dt and cfl both configured an anomaly is logged and the fixed
\* timestep, set first, stays the timestep criterion; with tfinal and ntime
\* both configured an anomaly is logged and the tfinal termination, set
\* first, stays the termination criterion.
C29_FirstCriterionStays ==
    /\ (ex.phase \in ExTimestepRead /\ ex.dt # <<>> /\ ex.cfl # <<>>)
          => /\ ExMsgCfl \in ExLogged
             /\ ex.timestep = <<"FixedTimestep", ex.dt[1]>>
    /\ (ex.phase \in ExStopRead /\ ex.tfinal # <<>> /\ ex.ntime # <<>>)
          => /\ ExMsgNtime \in ExLogged
             /\ ex.stop_condition = <<"TfinalTermination", ex.tfinal[1]>>

\* C29, what lua_solve does: the anomaly is logged and the criterion read
\* last replaces the one set first
ExLastCriterionWins ==
    /\ (ex.phase \in ExTimestepRead /\ ex.dt # <<>> /\ ex.cfl # <<>>)
          => /\ ExMsgCfl \in ExLogged
             /\ ex.timestep = <<"CFLTimestep", ex.cfl[1]>>
    /\ (ex.phase \in ExStopRead /\ ex.tfinal # <<>> /\ ex.ntime # <<>>)
          => /\ ExMsgNtime \in ExLogged
             /\ ex.stop_condition = <<"TimestepTermination", ex.ntime[1]>>

\* C29: the solver built after both were configured runs on the cfl and the
\* ntime criterion
ExSolverBuiltOnLast ==
    /\ ex.phase = "done"
    /\ ex.dt # <<>> /\ ex.cfl # <<>> /\ ex.tfinal # <<>> /\ ex.ntime # <<>>
    /\ ex.solver = <<ex.solver_type, <<"CFLTimestep", ex.cfl[1]>>,
                     <<"TimestepTermination", ex.ntime[1]>> >>
    /\ Len(anomaly_log) = 2

====
